---- MODULE Spec2Model ----
(***************************************************************************)
(* SkullStepperV4: the motion task of StepperController.cpp (limit switch  *)
(* monitor, command admission, homing state machine, auto-home), the       *)
(* motion command queue and its producers, and the axis driver seen        *)
(* through the calls the controller makes.                                 *)
(*                                                                         *)
(* Time.  The code stamps millis() and compares differences with its       *)
(* thresholds.  The model keeps each stamp as the time elapsed since it    *)
(* was taken (debounceMs = millis() - g_leftLimitDebounceStart, ...),      *)
(* advanced while the task sleeps in vTaskDelayUntil and held at the first *)
(* value past its threshold.  A task period (2 ms) is below the model's    *)
(* time resolution: a delay of 0 is a period in which no threshold is      *)
(* crossed.                                                                *)
(***************************************************************************)
EXTENDS Integers, Sequences, FiniteSets, TLC

\* ------------------------------------------------------------------------
\* Program constants
\* ------------------------------------------------------------------------
LIMIT_SWITCH_DEBOUNCE == 100
BACKOFF_STEPS == 50
POSITION_MARGIN == 10
HOMING_TIMEOUT_MS == 90000
AUTO_HOME_DELAY_MS == 2000
HOMING_TRAVEL == 100000
MOTION_QUEUE_LENGTH == 10
MIN_POSITION_STEPS == 0
MAX_POSITION_STEPS == 800
DEFAULT_MAX_SPEED == 5000
DEFAULT_ACCELERATION == 5000

\* ------------------------------------------------------------------------
\* Bounds of the model
\* ------------------------------------------------------------------------
\* Distance between the two switches, in motor steps of BACKOFF_STEPS.
TravelChunks == 5
\* How far past a switch the carriage can be driven before it stalls, likewise.
OverrunChunks == 1
\* Commands the producers send in one run of a controller specification.
MaxCommands == 3
\* Commands sent in the queue specification.
MaxSends == 11
\* Commands sent in the homing specification.
MaxHomingCommands == 2
\* Commands sent in the auto-home specification.
MaxAutoHomeCommands == 4

\* Steps the motor makes between two passes of the task.
StepChunk == BACKOFF_STEPS
\* Physical place of the right switch, in steps right of the left switch.
TravelSteps == TravelChunks * StepChunk
OverrunSteps == OverrunChunks * StepChunk

Sides == {"left", "right"}

Min(a, b) == IF a < b THEN a ELSE b
Max(a, b) == IF a > b THEN a ELSE b
Abs(a) == IF a < 0 THEN -a ELSE a

\* Arduino's constrain(amt, low, high) macro, as the preprocessor expands it.
constrain(amt, low, high) == IF amt < low THEN low ELSE IF amt > high THEN high ELSE amt

\* A stamp's elapsed time after d more ms, held at cap.
Elapse(ms, d, cap) == Min(ms + d, cap)

VARIABLES
    pc,                     \* where stepperControllerTask is in its loop
    pin,                    \* raw switch inputs, TRUE = LOW = pressed
    pinReading,             \* leftPinReading / rightPinReading of the poll in progress
    g_limitTriggered,       \* g_leftLimitTriggered / g_rightLimitTriggered (set by the ISRs)
    g_limitState,           \* g_leftLimitState / g_rightLimitState (debounced)
    g_lastPinReading,       \* g_lastLeftPinReading / g_lastRightPinReading
    debounceOn,             \* g_*LimitDebounceStart != 0
    debounceMs,             \* millis() - g_*LimitDebounceStart
    g_homingState,
    g_systemHomed,
    g_positionLimitsValid,
    g_limitFaultActive,
    g_motionState,
    g_stepperEnabled,
    g_minPosition,
    g_maxPosition,
    g_currentPosition,
    g_currentProfile,
    g_autoHomeRequested,
    autoHomeMs,             \* millis() - g_autoHomeRequestTime
    homingMs,               \* millis() - g_homingStartTime
    phaseMs,                \* millis() - g_homingPhaseStartTime
    stepper,                \* the driver: position, target, running
    axis,                   \* where the carriage physically is (0 = left switch)
    queue,                  \* g_motionCommandQueue
    config,                 \* the SystemConfig fields the controller reads
    safetyState,            \* g_systemStatus.safetyState
    mutexBusy,              \* g_stepperMutex is held by another task
    lastCall,               \* what the last processMotionCommand call did
    sent,                   \* observer: commands the queue accepted and the task
                            \* has not yet received, in order
    handled,                \* observer: FALSE once an observed command was received
                            \* out of turn or was not worked on
    sends,                  \* observer: how many commands the producers have sent
    obs,                    \* observer of the limit monitor's timing
    seen,                   \* observer: the fault era, the first homing, the poll's edges,
                            \* the processMotionCommand calls of the pass
    dmx                     \* DMXReceiver: the mode channel's cache and filter, the mode,
                            \* the homing flags; observer of the packets' mode values

limitVars == <<pin, pinReading, g_limitTriggered, g_limitState, g_lastPinReading,
               debounceOn, debounceMs>>
homingVars == <<g_homingState, g_systemHomed, g_positionLimitsValid, g_minPosition,
                g_maxPosition, homingMs, phaseMs>>
faultVars == <<g_limitFaultActive, g_autoHomeRequested, autoHomeMs>>
motionVars == <<g_motionState, g_stepperEnabled, g_currentPosition, g_currentProfile>>
driverVars == <<stepper, axis>>
queueVars == <<queue, sent, handled, sends>>
vars == <<pc, limitVars, homingVars, faultVars, motionVars, driverVars, queueVars,
          config, safetyState, mutexBusy, lastCall, obs, seen,
          dmx>>

\* ------------------------------------------------------------------------
\* The axis driver (ODStepper / FastAccelStepper), by the calls the code makes
\* ------------------------------------------------------------------------
Op(name, arg) == [op |-> name, arg |-> arg]

\* forceStop(): the ramp is abandoned and the motor stands where it is.
DrvForceStop(st) == [st EXCEPT !.running = FALSE, !.target = st.pos]
\* stopMove(): the target becomes the place the motor is at; it stops on the next driver step.
DrvStopMove(st) == [st EXCEPT !.target = st.pos]
\* moveTo(p): an absolute target; a move of no distance does not start the motor.
DrvMoveTo(st, p) == [st EXCEPT !.target = p, !.running = (st.running \/ p # st.pos)]
\* move(n): a target relative to the current position.
DrvMove(st, n) == DrvMoveTo(st, st.pos + n)
\* setCurrentPosition(p): the position counter is rewritten, the target moves with it.
DrvSetCurrentPosition(st, p) == [st EXCEPT !.pos = p, !.target = st.target - st.pos + p]

\* ------------------------------------------------------------------------
\* Limit switch monitor
\* ------------------------------------------------------------------------
\* The homing state in which an activation of this switch is the expected one.
FindingState(side) == IF side = "left" THEN "FINDING_LEFT" ELSE "FINDING_RIGHT"

\* The part of the state checkLimitSwitches reads and writes, as one record, so
\* that the left switch is processed before the right one as in the code.
MonitorState ==
    [limitState |-> g_limitState, debounceOn |-> debounceOn, debounceMs |-> debounceMs,
     triggered |-> g_limitTriggered, last |-> g_lastPinReading,
     stepper |-> stepper, motionState |-> g_motionState, safetyState |-> safetyState,
     fault |-> g_limitFaultActive, autoReq |-> g_autoHomeRequested, autoMs |-> autoHomeMs,
     ops |-> <<>>]

\* The emergency stop of the monitor: forceStop, motion state, status, latch,
\* and the auto-home request when the configuration asks for it.
LimitHit(m) ==
    [m EXCEPT !.stepper = DrvForceStop(m.stepper),
              !.ops = Append(m.ops, Op("forceStop", 0)),
              !.motionState = "IDLE",
              !.safetyState = "EMERGENCY_STOP",
              !.fault = TRUE,
              !.autoReq = (m.autoReq \/ config.autoHomeOnEstop),
              !.autoMs = IF config.autoHomeOnEstop THEN 0 ELSE m.autoMs]

\* A window test that is satisfied at once.
DebounceElapsedAtOnce(ms) == ms >= 0

\* The window test of processLeftLimit / processRightLimit.
DebounceElapsed(ms) == ms >= LIMIT_SWITCH_DEBOUNCE

\* A monitor that stops the axis on every activation outside the Finding state,
\* running or not.
StopsWheneverUnexpected(m, side) == g_homingState # FindingState(side)

\* A monitor that stops a running axis on every activation, expected or not.
StopsWheneverRunning(m, side) == m.stepper.running

\* A confirmed activation stops the axis unless homing is looking for this switch,
\* and only when the motor is running.
StopsOnActivation(m, side) == g_homingState # FindingState(side) /\ m.stepper.running

\* processLeftLimit / processRightLimit(currentReading, currentTime).
ProcessLimit(m, side, reading) ==
    IF reading # m.limitState[side]
    THEN IF ~m.debounceOn[side]
         THEN [m EXCEPT !.debounceOn[side] = TRUE, !.debounceMs[side] = 0]
         ELSE IF DebounceElapsed(m.debounceMs[side])
         THEN LET c == [m EXCEPT !.limitState[side] = reading,
                                 !.debounceOn[side] = FALSE,
                                 !.debounceMs[side] = 0,
                                 !.triggered[side] = FALSE]
              IN  IF reading /\ StopsOnActivation(c, side) THEN LimitHit(c) ELSE c
         ELSE m
    ELSE [m EXCEPT !.debounceOn[side] = FALSE, !.debounceMs[side] = 0,
                   !.triggered[side] = FALSE]

\* One switch of checkLimitSwitches: processed if the pin changed or the ISR fired.
CheckSwitch(m, side, reading) ==
    IF reading # m.last[side] \/ m.triggered[side]
    THEN [ProcessLimit(m, side, reading) EXCEPT !.last[side] = reading]
    ELSE m

\* checkLimitSwitches() after its two digitalRead calls: left, then right.
CheckLimitSwitches(m, readings) ==
    CheckSwitch(CheckSwitch(m, "left", readings["left"]), "right", readings["right"])


\* ------------------------------------------------------------------------
\* Motion commands
\* ------------------------------------------------------------------------
\* A MotionCommand: type and the profile fields processMotionCommand reads.
\* tag is the observer's serial number of the command (0 when not observed).
Cmd(type, target, limits, value, tag) ==
    [type |-> type, targetPosition |-> target, enableLimits |-> limits,
     value |-> value, tag |-> tag]

\* A test that takes no homing state for an active one.
NeverActive(h) == FALSE

HomingActive(h) == h \notin {"IDLE", "COMPLETE", "ERROR"}

\* The part of the state processMotionCommand, updateHomingSequence and the
\* auto-home block read and write, as one record.
ControlState ==
    [stepper |-> stepper, profile |-> g_currentProfile, homingState |-> g_homingState,
     homed |-> g_systemHomed, valid |-> g_positionLimitsValid,
     minPosition |-> g_minPosition, maxPosition |-> g_maxPosition,
     currentPosition |-> g_currentPosition, homingMs |-> homingMs, phaseMs |-> phaseMs,
     motionState |-> g_motionState, safetyState |-> safetyState,
     enabled |-> g_stepperEnabled, fault |-> g_limitFaultActive,
     autoReq |-> g_autoHomeRequested, config |-> config, ops |-> <<>>, ok |-> FALSE]

Call(k, name, arg) == [k EXCEPT !.ops = Append(k.ops, Op(name, arg))]

\* A start of homing that does not look at the switches.
StartsFindingLeftAlways(k) ==
    LET a == [k EXCEPT !.homingState = "FINDING_LEFT", !.homed = FALSE, !.valid = FALSE,
                       !.homingMs = 0, !.phaseMs = 0]
        b == Call(Call(a, "setSpeedInHz", a.config.homingSpeed),
                  "setAcceleration", a.profile.acceleration)
    IN  [Call(b, "moveTo", -HOMING_TRAVEL)
            EXCEPT !.stepper = DrvMoveTo(b.stepper, -HOMING_TRAVEL),
                   !.motionState = "HOMING"]

\* A start of homing that leaves the homed flag as it was.
StartsWithoutClearingHomed(k) ==
    LET a == [k EXCEPT !.homingState = "FINDING_LEFT", !.valid = FALSE,
                       !.homingMs = 0, !.phaseMs = 0]
        b == Call(Call(a, "setSpeedInHz", a.config.homingSpeed),
                  "setAcceleration", a.profile.acceleration)
    IN  IF g_limitState["left"] /\ g_limitState["right"]
        THEN [b EXCEPT !.homingState = "ERROR", !.motionState = "IDLE"]
        ELSE IF g_limitState["left"]
        THEN [Call(b, "move", BACKOFF_STEPS * 2)
                 EXCEPT !.homingState = "BACKING_OFF_LEFT",
                        !.stepper = DrvMove(b.stepper, BACKOFF_STEPS * 2),
                        !.motionState = "HOMING"]
        ELSE [Call(b, "moveTo", -HOMING_TRAVEL)
                 EXCEPT !.stepper = DrvMoveTo(b.stepper, -HOMING_TRAVEL),
                        !.motionState = "HOMING"]

\* startHomingSequence(), called with the mutex held.
startHomingSequence(k) ==
    LET a == [k EXCEPT !.homingState = "FINDING_LEFT", !.homed = FALSE, !.valid = FALSE,
                       !.homingMs = 0, !.phaseMs = 0]
        b == Call(Call(a, "setSpeedInHz", a.config.homingSpeed),
                  "setAcceleration", a.profile.acceleration)
    IN  IF g_limitState["left"] /\ g_limitState["right"]
        THEN [b EXCEPT !.homingState = "ERROR", !.motionState = "IDLE"]
        ELSE IF g_limitState["left"]
        THEN [Call(b, "move", BACKOFF_STEPS * 2)
                 EXCEPT !.homingState = "BACKING_OFF_LEFT",
                        !.stepper = DrvMove(b.stepper, BACKOFF_STEPS * 2),
                        !.motionState = "HOMING"]
        ELSE [Call(b, "moveTo", -HOMING_TRAVEL)
                 EXCEPT !.stepper = DrvMoveTo(b.stepper, -HOMING_TRAVEL),
                        !.motionState = "HOMING"]

\* Which commands the homed / limits-valid checks apply to (isMotionCommand).
IsMotionCommand(type) == type \in {"MOVE_ABSOLUTE", "MOVE_RELATIVE"}

\* Which commands the separate fault check of speed and acceleration applies to.
IsProfileCommand(type) == type \in {"SET_SPEED", "SET_ACCELERATION"}

\* Admission checks that look at the fault latch only.
RejectedOnFaultOnly(k, cmd) ==
    k.fault /\ (IsMotionCommand(cmd.type) \/ IsProfileCommand(cmd.type))

\* The admission checks at the head of processMotionCommand: TRUE = rejected.
Rejected(k, cmd) ==
    \/ IsMotionCommand(cmd.type) /\ (k.fault \/ ~k.homed \/ ~k.valid)
    \/ k.fault /\ IsProfileCommand(cmd.type)

\* The target of a move: clamped to the user limits, themselves constrained
\* to the physical limits, when limits are valid and the command enforces them.
ClampTarget(k, cmd, target) ==
    IF k.valid /\ cmd.enableLimits
    THEN LET userMinPos == constrain(k.config.minPosition, k.minPosition, k.maxPosition)
             userMaxPos == constrain(k.config.maxPosition, k.minPosition, k.maxPosition)
         IN  constrain(target, userMinPos, userMaxPos)
    ELSE target

MoveToTarget(k, target) ==
    [Call(k, "moveTo", target) EXCEPT !.stepper = DrvMoveTo(k.stepper, target), !.ok = TRUE]

\* The range of int32_t.
INT32_MAX == 2147483647
INT32_MIN == -INT32_MAX - 1

\* a + b on int32_t operands, as the target's 32-bit add computes it: a sum
\* outside the range comes back reduced modulo 2^32 (the language leaves the
\* signed overflow undefined; the code has no test before the addition).
Add32(a, b) ==
    IF a > 0 /\ b > 0 /\ a > INT32_MAX - b
    THEN (a - INT32_MAX - 1) + (b - INT32_MAX - 1)
    ELSE IF a < 0 /\ b < 0 /\ a < INT32_MIN - b
    THEN (a + INT32_MAX + 1) + (b + INT32_MAX + 1)
    ELSE a + b

\* processMotionCommand(cmd) once the mutex is held.
ProcessMotionCommand(k, cmd) ==
    IF Rejected(k, cmd)
    THEN [k EXCEPT !.safetyState = "POSITION_ERROR"]
    ELSE CASE cmd.type = "MOVE_ABSOLUTE" ->
                MoveToTarget(k, ClampTarget(k, cmd, cmd.targetPosition))
           [] cmd.type = "MOVE_RELATIVE" ->
                MoveToTarget(k, ClampTarget(k, cmd,
                                            Add32(k.currentPosition, cmd.targetPosition)))
           [] cmd.type = "SET_SPEED" ->
                [Call(k, "setSpeedInHz", cmd.value)
                    EXCEPT !.profile.maxSpeed = cmd.value, !.ok = TRUE]
           [] cmd.type = "SET_ACCELERATION" ->
                [Call(k, "setAcceleration", cmd.value)
                    EXCEPT !.profile.acceleration = cmd.value, !.ok = TRUE]
           [] cmd.type = "HOME" ->
                IF ~HomingActive(k.homingState)
                THEN [startHomingSequence(k) EXCEPT !.ok = TRUE]
                ELSE k
           [] cmd.type = "STOP" ->
                [Call(k, "stopMove", 0) EXCEPT !.stepper = DrvStopMove(k.stepper), !.ok = TRUE]
           [] cmd.type = "EMERGENCY_STOP" ->
                [Call(k, "forceStop", 0)
                    EXCEPT !.stepper = DrvForceStop(k.stepper), !.motionState = "IDLE",
                           !.safetyState = "EMERGENCY_STOP", !.ok = TRUE]
           [] cmd.type = "ENABLE" ->
                [Call(k, "enableOutputs", 0) EXCEPT !.enabled = TRUE, !.ok = TRUE]
           [] cmd.type = "DISABLE" ->
                [Call(k, "disableOutputs", 0) EXCEPT !.enabled = FALSE, !.ok = TRUE]
           [] OTHER -> k


\* ------------------------------------------------------------------------
\* Homing state machine
\* ------------------------------------------------------------------------
\* (int32_t)(x / 100.0f): the quotient truncated toward zero.
TruncDiv(x, y) == IF x >= 0 THEN x \div y ELSE -((-x) \div y)

\* The user limits after the correction updateHomingSequence applies to them
\* once the physical limits are known.
CorrectedConfig(c, lo, hi) ==
    LET newMin == IF c.minPosition < lo \/ c.minPosition >= hi THEN lo ELSE c.minPosition
        newMax == IF c.maxPosition > hi \/ c.maxPosition <= lo THEN hi ELSE c.maxPosition
    IN  [c EXCEPT !.minPosition = newMin, !.maxPosition = newMax]

\* The home position: the configured percentage of the physical range.
HomePosition(lo, hi, percent) == lo + TruncDiv((hi - lo) * percent, 100)

\* A controller without the overall timeout.
NeverTimedOut(k) == FALSE

\* A controller whose overall timeout has always passed.
TimedOutAtOnce(k) == TRUE

\* The overall timeout test at the head of updateHomingSequence.
HomingTimedOut(k) == k.homingMs > HOMING_TIMEOUT_MS

\* A completion that leaves the fault latch as it is.
CompleteHomingKeepingLatch(k) ==
    [k EXCEPT !.homingState = "COMPLETE", !.homed = TRUE,
              !.motionState = "IDLE", !.safetyState = "NORMAL"]

\* A completion that marks the position limits as not valid.
CompleteHomingWithoutLimits(k) ==
    [k EXCEPT !.homingState = "COMPLETE", !.homed = TRUE, !.valid = FALSE,
              !.motionState = "IDLE", !.fault = FALSE,
              !.safetyState = "NORMAL"]

\* The end of the run in the MOVING_TO_CENTER case: the run is complete.
CompleteHoming(k) ==
    [k EXCEPT !.homingState = "COMPLETE", !.homed = TRUE,
              !.motionState = "IDLE", !.fault = FALSE,
              !.safetyState = "NORMAL"]

\* The switch statement of updateHomingSequence, one case per homing state.
HomingStep(k) ==
    CASE k.homingState = "FINDING_LEFT" ->
            IF g_limitState["left"]
            THEN [Call(k, "forceStop", 0)
                     EXCEPT !.stepper = DrvForceStop(k.stepper),
                            !.homingState = "BACKING_OFF_LEFT", !.phaseMs = 0]
            ELSE IF ~k.stepper.running
            THEN [k EXCEPT !.homingState = "ERROR"]
            ELSE k
      [] k.homingState = "BACKING_OFF_LEFT" ->
            IF ~k.stepper.running
            THEN [Call(k, "move", BACKOFF_STEPS)
                     EXCEPT !.stepper = DrvMove(k.stepper, BACKOFF_STEPS)]
            ELSE IF ~g_limitState["left"]
            THEN LET z == DrvSetCurrentPosition(k.stepper, 0)
                     c == Call(Call(Call(k, "setCurrentPosition", 0),
                                    "setSpeedInHz", k.config.homingSpeed),
                               "moveTo", HOMING_TRAVEL)
                 IN  [c EXCEPT !.stepper = DrvMoveTo(z, HOMING_TRAVEL),
                               !.currentPosition = 0,
                               !.minPosition = POSITION_MARGIN,
                               !.homingState = "FINDING_RIGHT", !.phaseMs = 0]
            ELSE k
      [] k.homingState = "FINDING_RIGHT" ->
            IF g_limitState["right"]
            THEN [Call(k, "forceStop", 0)
                     EXCEPT !.stepper = DrvForceStop(k.stepper),
                            !.homingState = "BACKING_OFF_RIGHT", !.phaseMs = 0]
            ELSE IF ~k.stepper.running
            THEN [k EXCEPT !.homingState = "ERROR"]
            ELSE IF k.phaseMs > HOMING_TIMEOUT_MS
            THEN [Call(k, "forceStop", 0)
                     EXCEPT !.stepper = DrvForceStop(k.stepper), !.homingState = "ERROR"]
            ELSE k
      [] k.homingState = "BACKING_OFF_RIGHT" ->
            IF ~k.stepper.running
            THEN [Call(k, "move", -BACKOFF_STEPS)
                     EXCEPT !.stepper = DrvMove(k.stepper, -BACKOFF_STEPS)]
            ELSE IF ~g_limitState["right"]
            THEN LET hi == k.stepper.pos - POSITION_MARGIN
                     cfg == CorrectedConfig(k.config, k.minPosition, hi)
                     home == HomePosition(k.minPosition, hi, cfg.homePositionPercent)
                     c == Call(Call(Call(k, "saveToEEPROM", 0),
                                    "setSpeedInHz", k.profile.maxSpeed),
                               "moveTo", home)
                 IN  [c EXCEPT !.stepper = DrvMoveTo(k.stepper, home),
                               !.maxPosition = hi, !.valid = TRUE, !.config = cfg,
                               !.homingState = "MOVING_TO_CENTER"]
            ELSE k
      [] k.homingState = "MOVING_TO_CENTER" ->
            IF ~k.stepper.running THEN CompleteHoming(k) ELSE k
      [] k.homingState = "ERROR" ->
            [k EXCEPT !.motionState = "IDLE", !.safetyState = "POSITION_ERROR"]
      [] OTHER -> k

\* updateHomingSequence() once the mutex is held: the timeout, then the switch.
UpdateHomingSequence(k) ==
    IF HomingTimedOut(k)
    THEN HomingStep([Call(k, "forceStop", 0)
                        EXCEPT !.homingState = "ERROR",
                               !.stepper = DrvForceStop(k.stepper)])
    ELSE HomingStep(k)

\* The condition under which the task starts the requested auto-home.
AutoHomeDue(k) ==
    /\ k.autoReq
    /\ ~k.stepper.running
    /\ k.homingState \in {"IDLE", "COMPLETE"}
    /\ autoHomeMs >= AUTO_HOME_DELAY_MS

\* What the auto-home block does to the latch and the request before it
\* hands its HOME command to processMotionCommand.
AutoHomePrepare(k) == [k EXCEPT !.fault = FALSE, !.autoReq = FALSE]


\* ------------------------------------------------------------------------
\* Initial state: after initialize(), before the first pass of the task loop
\* ------------------------------------------------------------------------
HOMING_SPEED_DEFAULT == 940
HOME_PERCENT_DEFAULT == 50

NoCmd == Cmd("NONE", 0, FALSE, 0, 0)

\* The raw inputs for a carriage at physical place a.
SwitchesAt(a) == [s \in Sides |-> IF s = "left" THEN a <= 0 ELSE a >= TravelSteps]

\* ------------------------------------------------------------------------
\* DMXReceiver: the mode channel, its filter and the mode
\* ------------------------------------------------------------------------
MODE_STOP_MAX == 84
MODE_CONTROL_MAX == 170
MODE_HYSTERESIS == 5
HOME_TRIGGER_COUNT == 3

\* The mode a value of the mode channel stands for.
RawMode(modeValue) ==
    IF modeValue <= MODE_STOP_MAX THEN "STOP"
    ELSE IF modeValue <= MODE_CONTROL_MAX THEN "CONTROL"
    ELSE "HOME"

\* detectModeWithHysteresis(modeValue), with currentMode as it stands.
detectModeWithHysteresis(modeValue, currentMode) ==
    LET detectedMode == RawMode(modeValue)
    IN  IF /\ detectedMode # currentMode
           /\ \/ /\ currentMode = "STOP"
                 /\ detectedMode = "CONTROL"
                 /\ modeValue < MODE_STOP_MAX + MODE_HYSTERESIS
              \/ /\ currentMode = "CONTROL"
                 /\ detectedMode = "STOP"
                 /\ modeValue > MODE_STOP_MAX - MODE_HYSTERESIS
        THEN currentMode
        ELSE detectedMode

\* The receiver after DMXReceiver::begin(): the caches hold zeros, the mode
\* is STOP.  rest stands for the four channels beside the mode channel, which
\* carry one value in the packets sent here; run and held are observers: the
\* number of packets in a row whose mode value is in the HOME range, and
\* whether the mode value has been in the HOME range in every packet since
\* the receiver queued its last Home command.
DmxInit ==
    [connected |-> FALSE,
     cacheMode |-> 0, cacheRest |-> 0,
     validMode |-> 0, validRest |-> 0,
     previousMode |-> 0,
     consecutiveHomeReads |-> 0,
     currentMode |-> "STOP",
     homingInProgress |-> FALSE,
     homingTriggeredByDMX |-> FALSE,
     lastTargetPosition |-> -1,
     lastSpeedValue |-> 0,
     allChannelsWereZero |-> FALSE,
     packets |-> 0, run |-> 0, held |-> FALSE]

\* updateChannelCache() on a packet with the given mode value and the given
\* value on the four other channels.
updateChannelCache(d, modeValue, rest) ==
    LET zeroCount == (IF rest = 0 THEN 4 ELSE 0) + (IF modeValue = 0 THEN 1 ELSE 0)
        ffCount == (IF rest = 255 THEN 4 ELSE 0) + (IF modeValue = 255 THEN 1 ELSE 0)
        dataValid == ~(ffCount = 5 \/ (zeroCount = 4 /\ ffCount = 1))
        counted == modeValue = 255 /\ d.previousMode < 250
        reads == IF modeValue # 255 THEN 0
                 ELSE IF counted THEN (d.consecutiveHomeReads + 1) % 256
                 ELSE d.consecutiveHomeReads
        tempMode == IF counted /\ reads < HOME_TRIGGER_COUNT
                    THEN d.previousMode ELSE modeValue
    IN  [d EXCEPT !.consecutiveHomeReads = reads,
                  !.cacheMode = IF dataValid THEN tempMode ELSE d.validMode,
                  !.cacheRest = IF dataValid THEN rest ELSE d.validRest,
                  !.validMode = IF dataValid THEN tempMode ELSE d.validMode,
                  !.validRest = IF dataValid THEN rest ELSE d.validRest,
                  !.previousMode = tempMode]

\* The part of dmxTask's loop body that handles a new packet: the cache is
\* updated, and a cache that comes back from all zeros forces a position
\* update.
DmxPacketReceived(d, modeValue, rest) ==
    LET u == updateChannelCache(d, modeValue, rest)
        allChannelsZero == u.cacheMode = 0 /\ u.cacheRest = 0
        inHome == RawMode(modeValue) = "HOME"
    IN  [u EXCEPT !.connected = TRUE,
                  !.lastTargetPosition =
                      IF ~allChannelsZero /\ d.allChannelsWereZero THEN -1
                      ELSE d.lastTargetPosition,
                  !.allChannelsWereZero = allChannelsZero,
                  !.packets = d.packets + 1,
                  !.run = IF inHome THEN Min(d.run + 1, HOME_TRIGGER_COUNT) ELSE 0,
                  !.held = d.held /\ inHome]

\* Where the observer of a steady input is held: three debounce windows.
ObsCap == 3 * LIMIT_SWITCH_DEBOUNCE

InitWith(start, pins, autoHome, observe) ==
    /\ pc = "read"
    /\ axis = start
    /\ pin = pins
    /\ pinReading = pins
    /\ g_limitTriggered = [s \in Sides |-> FALSE]
    /\ g_limitState = pins
    /\ g_lastPinReading = pins
    /\ debounceOn = [s \in Sides |-> FALSE]
    /\ debounceMs = [s \in Sides |-> 0]
    /\ g_homingState = "IDLE"
    /\ g_systemHomed = FALSE
    /\ g_positionLimitsValid = FALSE
    /\ g_limitFaultActive = FALSE
    /\ g_motionState = "IDLE"
    /\ g_stepperEnabled = TRUE
    /\ g_minPosition = MIN_POSITION_STEPS
    /\ g_maxPosition = MAX_POSITION_STEPS
    /\ g_currentPosition = 0
    /\ g_currentProfile = [maxSpeed |-> DEFAULT_MAX_SPEED, acceleration |-> DEFAULT_ACCELERATION]
    /\ g_autoHomeRequested = FALSE
    /\ autoHomeMs = 0
    /\ homingMs = 0
    /\ phaseMs = 0
    /\ stepper = [pos |-> 0, target |-> 0, running |-> FALSE]
    /\ queue = <<>>
    /\ sent = <<>>
    /\ handled = TRUE
    /\ sends = 0
    /\ config = [minPosition |-> MIN_POSITION_STEPS, maxPosition |-> MAX_POSITION_STEPS,
                 homePositionPercent |-> HOME_PERCENT_DEFAULT,
                 homingSpeed |-> HOMING_SPEED_DEFAULT, autoHomeOnEstop |-> autoHome]
    /\ safetyState = "NORMAL"
    /\ mutexBusy = FALSE
    /\ dmx = DmxInit
    /\ lastCall = [by |-> "init", cmd |-> NoCmd, ok |-> FALSE, ops |-> <<>>]
    /\ obs = [on |-> observe,
              sinceConfirm |-> [s \in Sides |-> LIMIT_SWITCH_DEBOUNCE],
              sinceMatch |-> [s \in Sides |-> 0],
              pinStable |-> [s \in Sides |-> ObsCap]]
    /\ seen = [faultEra |-> FALSE, everHomed |-> FALSE, edge |-> [s \in Sides |-> "none"],
               calls |-> 0]

\* The carriage starts on the left switch, between the switches, or on the right one.
StartPlaces == {0, StepChunk, TravelSteps}

Init == \E start \in StartPlaces, autoHome \in BOOLEAN :
            InitWith(start, SwitchesAt(start), autoHome, FALSE)

\* ------------------------------------------------------------------------
\* stepperControllerTask: one action per block of the loop body
\* ------------------------------------------------------------------------
ApplyMonitor(m) ==
    /\ g_limitState' = m.limitState
    /\ debounceOn' = m.debounceOn
    /\ debounceMs' = m.debounceMs
    /\ g_limitTriggered' = m.triggered
    /\ g_lastPinReading' = m.last
    /\ stepper' = m.stepper
    /\ g_motionState' = m.motionState
    /\ safetyState' = m.safetyState
    /\ g_limitFaultActive' = m.fault
    /\ g_autoHomeRequested' = m.autoReq
    /\ autoHomeMs' = m.autoMs

ApplyControl(k) ==
    /\ stepper' = k.stepper
    /\ g_currentProfile' = k.profile
    /\ g_homingState' = k.homingState
    /\ g_systemHomed' = k.homed
    /\ g_positionLimitsValid' = k.valid
    /\ g_minPosition' = k.minPosition
    /\ g_maxPosition' = k.maxPosition
    /\ g_currentPosition' = k.currentPosition
    /\ homingMs' = k.homingMs
    /\ phaseMs' = k.phaseMs
    /\ g_motionState' = k.motionState
    /\ safetyState' = k.safetyState
    /\ g_stepperEnabled' = k.enabled
    /\ g_limitFaultActive' = k.fault
    /\ g_autoHomeRequested' = k.autoReq
    /\ config' = k.config

\* checkLimitSwitches(), first half: millis() and the two digitalRead calls.
TaskReadPins ==
    /\ pc = "read"
    /\ pc' = "check"
    /\ pinReading' = pin
    /\ UNCHANGED <<pin, g_limitTriggered, g_limitState, g_lastPinReading, debounceOn,
                   debounceMs, homingVars, faultVars, motionVars, driverVars, queueVars,
                   config, safetyState, mutexBusy, lastCall, obs, seen, dmx>>

\* The observers after a poll: a confirmed change restarts sinceConfirm, a
\* sample equal to the confirmed state restarts sinceMatch.
ObserveCheck(m) ==
    IF obs.on
    THEN [obs EXCEPT
            !.sinceConfirm = [s \in Sides |-> IF m.limitState[s] # g_limitState[s]
                                              THEN 0 ELSE obs.sinceConfirm[s]],
            !.sinceMatch = [s \in Sides |-> IF pinReading[s] = m.limitState[s]
                                            THEN 0 ELSE obs.sinceMatch[s]]]
    ELSE obs

\* The edges a poll confirmed.
Edges(m) ==
    [s \in Sides |-> IF m.limitState[s] = g_limitState[s] THEN "none"
                     ELSE IF m.limitState[s] THEN "activated" ELSE "released"]

\* The history observer after a step: the fault era runs from the latch being
\* set until the homing state machine next enters COMPLETE; calls counts the
\* commands handed to processMotionCommand since the pass's poll.
SeenStep(edge) ==
    [faultEra |-> IF g_homingState' = "COMPLETE" /\ g_homingState # "COMPLETE" THEN FALSE
                  ELSE IF g_limitFaultActive' /\ ~g_limitFaultActive THEN TRUE
                  ELSE seen.faultEra,
     everHomed |-> (seen.everHomed \/ g_homingState' = "COMPLETE"),
     edge |-> edge,
     calls |-> IF pc = "check" THEN 0
               ELSE IF pc \in {"cmd", "autohome"} THEN seen.calls + 1
               ELSE seen.calls]

\* checkLimitSwitches(), second half: both switches processed.
TaskCheckLimits ==
    /\ pc = "check"
    /\ pc' = "cmd"
    /\ LET m == CheckLimitSwitches(MonitorState, pinReading)
       IN  /\ ApplyMonitor(m)
           /\ lastCall' = [by |-> "check", cmd |-> NoCmd, ok |-> FALSE, ops |-> m.ops]
           /\ obs' = ObserveCheck(m)
           /\ UNCHANGED homingVars
           /\ seen' = SeenStep(Edges(m))
    /\ UNCHANGED <<pin, pinReading, g_stepperEnabled, g_currentPosition,
                   g_currentProfile, axis, queueVars, config, mutexBusy, dmx>>

\* The command the task receives from the queue.
Receive(q) == Head(q)
\* The queue after xQueueReceive.
AfterReceive(q) == Tail(q)

\* processMotionCommand works on the command: the mutex is obtained.
Executes(cmd) == ~mutexBusy
\* The command is the oldest one accepted and not yet received.
InTurn(cmd) == sent # <<>> /\ Head(sent) = cmd

\* xQueueReceive(..., 0) and processMotionCommand(cmd); the command is gone
\* from the queue whether or not the mutex is obtained.
TaskCommand ==
    /\ pc = "cmd"
    /\ pc' = "homing"
    /\ IF queue = <<>>
       THEN /\ lastCall' = [by |-> "cmd", cmd |-> NoCmd, ok |-> FALSE, ops |-> <<>>]
            /\ UNCHANGED <<homingVars, faultVars, motionVars, stepper, queueVars,
                           config, safetyState, seen>>
       ELSE LET cmd == Receive(queue)
                k == IF mutexBusy THEN ControlState
                     ELSE ProcessMotionCommand(ControlState, cmd)
            IN  /\ queue' = AfterReceive(queue)
                /\ sent' = IF InTurn(cmd) THEN Tail(sent) ELSE sent
                /\ handled' = (handled /\ (cmd.tag # 0 => InTurn(cmd) /\ Executes(cmd)))
                /\ UNCHANGED sends
                /\ ApplyControl(k)
                /\ seen' = SeenStep(seen.edge)
                /\ lastCall' = [by |-> "cmd", cmd |-> cmd, ok |-> k.ok, ops |-> k.ops]
    /\ UNCHANGED <<limitVars, autoHomeMs, axis, mutexBusy, obs, dmx>>

\* updateHomingSequence(), called in the active homing states; skipped when
\* the mutex is not obtained.
TaskHoming ==
    /\ pc = "homing"
    /\ pc' = "status"
    /\ LET k == IF HomingActive(g_homingState) /\ ~mutexBusy
                THEN UpdateHomingSequence(ControlState)
                ELSE ControlState
       IN  /\ ApplyControl(k)
           /\ seen' = SeenStep(seen.edge)
           /\ lastCall' = [by |-> "homing", cmd |-> NoCmd, ok |-> FALSE, ops |-> k.ops]
    /\ UNCHANGED <<limitVars, autoHomeMs, axis, queueVars, mutexBusy, obs, dmx>>

\* rampState() of the driver's ramp generator, by the distance left to go.
RampState(st) ==
    LET togo == Abs(st.target - st.pos)
    IN  IF togo > 2 * StepChunk THEN "ACCELERATING"
        ELSE IF togo > StepChunk THEN "CONSTANT_VELOCITY"
        ELSE "DECELERATING"

\* A status update that takes every state but IDLE and COMPLETE for a run.
MotionStateHomingInError ==
    IF g_homingState \notin {"IDLE", "COMPLETE"} THEN "HOMING"
    ELSE IF stepper.running THEN RampState(stepper)
    ELSE "IDLE"

\* The motion state updateMotionStatus derives.
MotionStateNow ==
    IF HomingActive(g_homingState) THEN "HOMING"
    ELSE IF stepper.running THEN RampState(stepper)
    ELSE "IDLE"

\* A pass whose status block publishes nothing.
StatusNotPublished ==
    /\ pc = "status"
    /\ pc' = "autohome"
    /\ UNCHANGED <<g_currentPosition, g_motionState>>
    /\ UNCHANGED <<limitVars, homingVars, faultVars, g_stepperEnabled, g_currentProfile,
                   driverVars, queueVars, config, safetyState, mutexBusy, lastCall, obs,
                   seen, dmx>>

\* updateMotionStatus(); skipped when the mutex is not obtained.
TaskStatus ==
    /\ pc = "status"
    /\ pc' = "autohome"
    /\ IF mutexBusy
       THEN UNCHANGED <<g_currentPosition, g_motionState>>
       ELSE /\ g_currentPosition' = stepper.pos
            /\ g_motionState' = MotionStateNow
    /\ UNCHANGED <<limitVars, homingVars, faultVars, g_stepperEnabled, g_currentProfile,
                   driverVars, queueVars, config, safetyState, mutexBusy, lastCall, obs,
                   seen, dmx>>

\* The auto-home block at the end of the loop body.
TaskAutoHome ==
    /\ pc = "autohome"
    /\ pc' = "delay"
    /\ IF AutoHomeDue(ControlState)
       THEN LET p == AutoHomePrepare(ControlState)
                homeCmd == Cmd("HOME", 0, FALSE, 0, 0)
                k == IF mutexBusy THEN p ELSE ProcessMotionCommand(p, homeCmd)
            IN  /\ ApplyControl(k)
                /\ seen' = SeenStep(seen.edge)
                /\ lastCall' = [by |-> "autohome", cmd |-> homeCmd, ok |-> k.ok, ops |-> k.ops]
       ELSE /\ lastCall' = [by |-> "autohome", cmd |-> NoCmd, ok |-> FALSE, ops |-> <<>>]
            /\ UNCHANGED <<homingVars, faultVars, motionVars, stepper, config, safetyState,
                           seen>>
    /\ UNCHANGED <<limitVars, autoHomeMs, axis, queueVars, mutexBusy, obs, dmx>>


\* ------------------------------------------------------------------------
\* The task's sleep, the motor, the carriage and the switches
\* ------------------------------------------------------------------------
\* The timers that are running, after d more ms.
DebounceAfter(d) ==
    [s \in Sides |-> IF debounceOn[s]
                     THEN Elapse(debounceMs[s], d, LIMIT_SWITCH_DEBOUNCE) ELSE debounceMs[s]]
AutoHomeAfter(d) ==
    IF g_autoHomeRequested THEN Elapse(autoHomeMs, d, AUTO_HOME_DELAY_MS) ELSE autoHomeMs
\* The homing stamps are compared with HOMING_TIMEOUT_MS only, which is 900
\* debounce windows: sleeps that do not take a stamp past the timeout are not
\* added up, so a run times out when a sleep of the timeout's length occurs.
HomingAfter(ms, d) ==
    IF HomingActive(g_homingState) /\ ms + d > HOMING_TIMEOUT_MS
    THEN HOMING_TIMEOUT_MS + 1 ELSE ms

ObserveDelay(d) ==
    IF obs.on
    THEN [obs EXCEPT
            !.sinceConfirm = [s \in Sides |->
                                Elapse(obs.sinceConfirm[s], d, LIMIT_SWITCH_DEBOUNCE)],
            !.sinceMatch = [s \in Sides |->
                                Elapse(obs.sinceMatch[s], d, LIMIT_SWITCH_DEBOUNCE)],
            !.pinStable = [s \in Sides |-> Elapse(obs.pinStable[s], d, ObsCap)]]
    ELSE obs

\* vTaskDelayUntil: the task sleeps and d ms pass.
TaskDelay(d) ==
    /\ pc \in {"delay", "moved"}
    /\ pc' = "read"
    /\ debounceMs' = DebounceAfter(d)
    /\ autoHomeMs' = AutoHomeAfter(d)
    /\ homingMs' = HomingAfter(homingMs, d)
    /\ phaseMs' = HomingAfter(phaseMs, d)
    /\ obs' = ObserveDelay(d)
    /\ UNCHANGED <<pin, pinReading, g_limitTriggered, g_limitState, g_lastPinReading,
                   debounceOn, g_homingState, g_systemHomed, g_positionLimitsValid,
                   g_minPosition, g_maxPosition, g_limitFaultActive, g_autoHomeRequested,
                   motionVars, driverVars, queueVars, config, safetyState, mutexBusy,
                   lastCall, seen, dmx>>

\* The times at which a running timer reaches its threshold.
Deadlines ==
    {LIMIT_SWITCH_DEBOUNCE - debounceMs[s] : s \in {t \in Sides : debounceOn[t]}}
    \cup (IF g_autoHomeRequested THEN {AUTO_HOME_DELAY_MS - autoHomeMs} ELSE {})
    \cup (IF HomingActive(g_homingState) THEN {HOMING_TIMEOUT_MS + 1 - homingMs} ELSE {})

\* The time the motor takes for StepChunk steps: one debounce window.
StepTime == LIMIT_SWITCH_DEBOUNCE

Sign(x) == IF x > 0 THEN 1 ELSE IF x < 0 THEN -1 ELSE 0

\* The carriage cannot be driven further than the end stop behind each switch.
AxisAfter(a, delta) == constrain(a + delta, -OverrunSteps, TravelSteps + OverrunSteps)

\* The pin-change interrupt: leftLimitISR / rightLimitISR on a CHANGE edge.
LimitISR(newPin) == [s \in Sides |-> g_limitTriggered[s] \/ newPin[s] # pin[s]]

\* The driver's step generator while the task sleeps: the motor goes up to
\* StepChunk steps toward its target and stops when it is there.  The carriage
\* follows, the switches follow the carriage, and an edge raises the interrupt.
\* A motor held against an end stop makes no further steps.
DriverStep ==
    /\ pc = "delay"
    /\ stepper.running
    /\ LET dist == stepper.target - stepper.pos
           want == Sign(dist) * Min(Abs(dist), StepChunk)
           place == AxisAfter(axis, want)
           delta == place - axis
       IN  /\ want = 0 \/ delta # 0
           /\ stepper' = [stepper EXCEPT !.pos = stepper.pos + delta,
                                         !.running = (stepper.pos + delta # stepper.target)]
           /\ axis' = place
           /\ pin' = SwitchesAt(place)
           /\ g_limitTriggered' = LimitISR(SwitchesAt(place))
    /\ pc' = "moved"
    /\ UNCHANGED <<pinReading, g_limitState, g_lastPinReading, debounceOn, debounceMs,
                   homingVars, faultVars, motionVars, queueVars, config, safetyState,
                   mutexBusy, lastCall, obs, seen, dmx>>

\* Whether the motor makes steps in the coming sleep.
MotorMoves == ENABLED DriverStep

\* The sleep of the controller specifications.  A sleep in which the motor
\* has made its steps lasts StepTime or up to a later threshold; otherwise it
\* is a period in which no threshold is crossed or, with the motor at rest,
\* the time up to a running timer's threshold.
SleepTimes ==
    IF pc = "moved" THEN {StepTime} \cup {d \in Deadlines : d > StepTime}
    ELSE IF MotorMoves THEN {0}
    ELSE {0} \cup Deadlines

TaskSleep == \E d \in SleepTimes : TaskDelay(d)

\* Another task takes or gives g_stepperMutex while the motion task sleeps.
MutexToggle ==
    /\ pc \in {"delay", "moved"}
    /\ mutexBusy' = ~mutexBusy
    /\ UNCHANGED <<pc, limitVars, homingVars, faultVars, motionVars, driverVars,
                   queueVars, config, safetyState, lastCall, obs, seen, dmx>>

\* ------------------------------------------------------------------------
\* The motion command queue and its producers
\* ------------------------------------------------------------------------
\* A queue that takes one item more than its length.
RoomForOneMore(q) == Len(q) <= MOTION_QUEUE_LENGTH

\* xQueueSend on a queue of MOTION_QUEUE_LENGTH items: TRUE = queued.
QueueHasRoom(q) == Len(q) < MOTION_QUEUE_LENGTH
xQueueSend(q, cmd) == IF QueueHasRoom(q) THEN Append(q, cmd) ELSE q

\* The commands sent in the controller specifications: a move with the
\* limits enforced, a move beyond the right switch without them, a relative
\* move, the two profile commands with the values of the default profile (as
\* WebInterface::sendMotionCommand fills them in), Home and Stop.
Commands ==
    {Cmd("MOVE_ABSOLUTE", StepChunk, TRUE, 0, 0),
     Cmd("MOVE_ABSOLUTE", 2 * TravelSteps, FALSE, 0, 0),
     Cmd("MOVE_RELATIVE", -StepChunk, TRUE, 0, 0),
     Cmd("SET_SPEED", 0, TRUE, DEFAULT_MAX_SPEED, 0),
     Cmd("SET_ACCELERATION", 0, TRUE, DEFAULT_ACCELERATION, 0),
     Cmd("HOME", 0, TRUE, 0, 0),
     Cmd("STOP", 0, TRUE, 0, 0)}

\* WebInterface::sendMotionCommand and the StepperController producers
\* (moveTo, move, stop, startHoming, setMaxSpeed, setAcceleration): the
\* command is built and handed to xQueueSend.
Send(cmd) ==
    /\ queue' = xQueueSend(queue, cmd)
    /\ sends' = sends + 1
    /\ UNCHANGED <<pc, limitVars, homingVars, faultVars, motionVars, driverVars,
                   sent, handled, config, safetyState, mutexBusy, lastCall, obs, seen, dmx>>

\* The producers of the controller specifications.  Nothing but the task's
\* receive looks at the queue, so a send commutes with every step before it:
\* the sends are placed where the task is about to receive, one at a time.
SendCommand ==
    /\ pc = "cmd"
    /\ queue = <<>>
    /\ sends < MaxCommands
    /\ \E cmd \in Commands : Send(cmd)

TaskStep ==
    \/ TaskReadPins
    \/ TaskCheckLimits
    \/ TaskCommand
    \/ TaskHoming
    \/ TaskStatus
    \/ TaskAutoHome

Next ==
    \/ TaskStep
    \/ TaskSleep
    \/ DriverStep
    \/ SendCommand

Spec == Init /\ [][Next]_vars

\* ------------------------------------------------------------------------
\* Properties of the controller specification
\* ------------------------------------------------------------------------
MoveKinds == {"MOVE_ABSOLUTE", "MOVE_RELATIVE"}
ProfileKinds == {"SET_SPEED", "SET_ACCELERATION"}
GuardedKinds == MoveKinds \cup ProfileKinds

\* The state right after processMotionCommand was handed a dequeued command.
AfterCommand == pc = "homing" /\ lastCall.by = "cmd" /\ lastCall.cmd.type # "NONE"

\* The call returned false and made no driver call.
WasRejected == ~lastCall.ok /\ lastCall.ops = <<>>

OpsOf(call) == {call.ops[i] : i \in DOMAIN call.ops}
OtherSide(s) == IF s = "left" THEN "right" ELSE "left"
BackingOffState(s) == IF s = "left" THEN "BACKING_OFF_LEFT" ELSE "BACKING_OFF_RIGHT"

\* C1: from the moment the fault latch is set until the homing state machine
\* next enters COMPLETE, every MoveAbsolute, MoveRelative, SetSpeed and
\* SetAcceleration handed to processMotionCommand is rejected: it returns
\* false and makes no driver call.
FaultEraRejectsGuardedCommands ==
    (AfterCommand /\ seen.faultEra /\ lastCall.cmd.type \in GuardedKinds) => WasRejected

\* C2: the fault latch goes from true to false only in the step in which the
\* homing state machine goes from MOVING_TO_CENTER to COMPLETE.
LatchClearedOnlyByCompletion ==
    [][(g_limitFaultActive /\ ~g_limitFaultActive')
        => (g_homingState = "MOVING_TO_CENTER" /\ g_homingState' = "COMPLETE")]_vars

ActivationPolled(s) == pc = "check" /\ seen'.edge[s] = "activated"

\* C4, as the specification states it: a confirmed activation while the
\* homing state is not the Finding state of that switch makes the monitor
\* call forceStop and set the fault latch in the same poll, running or not.
UnexpectedActivationAlwaysStops ==
    [][\A s \in Sides :
        (ActivationPolled(s) /\ g_homingState # FindingState(s))
            => (Op("forceStop", 0) \in OpsOf(lastCall') /\ g_limitFaultActive')]_vars

\* C4, as the code has it: such an activation makes the monitor call
\* forceStop and set the fault latch in the same poll when the motor is
\* running; with the motor at rest the poll makes no driver call and leaves
\* the latch and the auto-home request as they were.
UnexpectedActivationStopsRunningAxis ==
    [][\A s \in Sides :
        (ActivationPolled(s) /\ g_homingState # FindingState(s))
            => IF stepper.running
               THEN Op("forceStop", 0) \in OpsOf(lastCall') /\ g_limitFaultActive'
                    /\ ~stepper'.running
               ELSE lastCall'.ops = <<>>
                    /\ UNCHANGED <<g_limitFaultActive, g_autoHomeRequested, stepper>>]_vars

UnexpectedActivationStopped ==
    /\ pc = "cmd"
    /\ lastCall.by = "check"
    /\ \E s \in Sides : seen.edge[s] = "activated" /\ g_homingState # FindingState(s)
    /\ lastCall.ops = <<Op("forceStop", 0)>>
    /\ g_limitFaultActive

\* What the limit monitor does with an activation the homing sequencer is
\* waiting for: no driver call, latch and auto-home request untouched.
ExpectedActivationIgnored(s) ==
    (ActivationPolled(s) /\ g_homingState = FindingState(s)
        /\ seen'.edge[OtherSide(s)] # "activated")
        => (lastCall'.ops = <<>>
            /\ UNCHANGED <<g_limitFaultActive, g_autoHomeRequested, autoHomeMs, stepper>>)

\* The homing update of the pass in which the awaited activation was confirmed.
UpdateAfterActivation(s) ==
    pc = "homing" /\ seen.edge[s] = "activated" /\ g_homingState = FindingState(s)

\* C5, as the specification states it: the monitor leaves an awaited
\* activation alone and the sequencer's next update goes to the back-off state.
ExpectedActivationBacksOff ==
    [][\A s \in Sides :
        /\ ExpectedActivationIgnored(s)
        /\ UpdateAfterActivation(s) => g_homingState' = BackingOffState(s)]_vars

\* C5, as the code has it: the next update goes to the back-off state unless
\* the homing timeout has run out by then, which takes it to ERROR.
ExpectedActivationBacksOffInTime ==
    [][\A s \in Sides :
        /\ ExpectedActivationIgnored(s)
        /\ UpdateAfterActivation(s) =>
              g_homingState' = IF homingMs > HOMING_TIMEOUT_MS THEN "ERROR"
                               ELSE BackingOffState(s)]_vars

ExpectedActivationBackedOff ==
    /\ pc = "status"
    /\ \E s \in Sides : seen.edge[s] = "activated" /\ g_homingState = BackingOffState(s)
    /\ lastCall.by = "homing"
    /\ lastCall.ops = <<Op("forceStop", 0)>>
    /\ ~g_limitFaultActive

\* ------------------------------------------------------------------------
\* The limit monitor on its own: free switch inputs, finer time
\* ------------------------------------------------------------------------
\* A switch input changes level at any point of the task's loop, also between
\* the poll's digitalRead and its use of the flag: the ISR sets the flag.
PinChange(s) ==
    /\ pin' = [pin EXCEPT ![s] = ~pin[s]]
    /\ g_limitTriggered' = [g_limitTriggered EXCEPT ![s] = TRUE]
    /\ obs' = [obs EXCEPT !.pinStable[s] = 0]
    /\ UNCHANGED <<pc, pinReading, g_limitState, g_lastPinReading, debounceOn, debounceMs,
                   homingVars, faultVars, motionVars, driverVars, queueVars, config,
                   safetyState, mutexBusy, lastCall, seen, dmx>>

PinNoise == \E s \in Sides : PinChange(s)

\* The sleeps of the monitor specification: none, half a window, a window.
LimitSleepTimes == {0, LIMIT_SWITCH_DEBOUNCE \div 2, LIMIT_SWITCH_DEBOUNCE}

LimitSleep == \E d \in LimitSleepTimes : TaskDelay(d)

InitLimit == InitWith(StepChunk, SwitchesAt(StepChunk), FALSE, TRUE)

NextLimit ==
    \/ TaskStep
    \/ LimitSleep
    \/ PinNoise

SpecLimit == InitLimit /\ [][NextLimit]_vars

\* C6: two successive confirmed transitions of a switch's debounced state are
\* at least LIMIT_SWITCH_DEBOUNCE ms apart, and the state changes only when no
\* poll sample of the last LIMIT_SWITCH_DEBOUNCE ms equalled the confirmed state.
ConfirmedTransitionsSpaced ==
    [][\A s \in Sides :
        g_limitState'[s] # g_limitState[s]
            => /\ obs.sinceConfirm[s] >= LIMIT_SWITCH_DEBOUNCE
               /\ obs.sinceMatch[s] >= LIMIT_SWITCH_DEBOUNCE]_vars

\* A release has been confirmed after an activation, on raw inputs that
\* changed again less than a window before the poll.
SecondTransitionConfirmed ==
    /\ pc = "cmd"
    /\ \E s \in Sides :
        /\ seen.edge[s] = "released"
        /\ obs.sinceConfirm[s] = 0
        /\ obs.pinStable[OtherSide(s)] < LIMIT_SWITCH_DEBOUNCE

\* C7: a switch input that has kept a new level for longer than the debounce
\* window is confirmed: after three windows of a steady input, at the end of a
\* poll, the debounced state equals the input.
SteadyInputConfirmed ==
    \A s \in Sides :
        (pc = "cmd" /\ obs.pinStable[s] = ObsCap) => g_limitState[s] = pin[s]

\* The monitor no longer looks at a switch: the input is steady and differs
\* from the debounced state, yet the poll will not process it.
MonitorStuck(s) ==
    /\ pc = "cmd"
    /\ obs.pinStable[s] = ObsCap
    /\ g_limitState[s] # pin[s]
    /\ g_lastPinReading[s] = pin[s]
    /\ ~g_limitTriggered[s]

\* ------------------------------------------------------------------------
\* The controller with the web front end's configuration updates
\* ------------------------------------------------------------------------
\* Values a front end writes into the operating limits.
ConfigPositions == {MIN_POSITION_STEPS, BACKOFF_STEPS \div 2, BACKOFF_STEPS}

\* WebInterface::updateConfiguration with the keys minPosition and
\* maxPosition: both values are stored as received.
WebUpdateConfiguration(lo, hi) ==
    /\ config' = [config EXCEPT !.minPosition = lo, !.maxPosition = hi]
    /\ UNCHANGED <<pc, limitVars, homingVars, faultVars, motionVars, driverVars,
                   queueVars, safetyState, mutexBusy, lastCall, obs, seen, dmx>>

\* The configuration is read by the command processing and the homing update
\* only: the updates are placed before them in the task's pass.
WebUpdate ==
    /\ pc = "cmd"
    /\ \E lo \in ConfigPositions, hi \in ConfigPositions : WebUpdateConfiguration(lo, hi)

\* The commands sent in the configuration specification: Home, and a move
\* with the limits enforced.
ConfigCommands ==
    {Cmd("HOME", 0, TRUE, 0, 0),
     Cmd("MOVE_ABSOLUTE", BACKOFF_STEPS \div 2, TRUE, 0, 0)}

SendConfigCommand ==
    /\ pc = "cmd"
    /\ queue = <<>>
    /\ sends < MaxCommands
    /\ \E cmd \in ConfigCommands : Send(cmd)

NextConfig ==
    \/ TaskStep
    \/ TaskSleep
    \/ DriverStep
    \/ SendConfigCommand
    \/ WebUpdate

\* The axis starts between the switches, auto-home off.
InitConfig == InitWith(StepChunk, SwitchesAt(StepChunk), FALSE, FALSE)

SpecConfig == InitConfig /\ [][NextConfig]_vars

\* The operating limits: the configured limits constrained to the physical ones.
OperatingMin == constrain(config.minPosition, g_minPosition, g_maxPosition)
OperatingMax == constrain(config.maxPosition, g_minPosition, g_maxPosition)

\* The state right after an accepted MoveAbsolute with the limits enforced.
AfterClampedMove ==
    /\ AfterCommand
    /\ lastCall.cmd.type = "MOVE_ABSOLUTE"
    /\ lastCall.cmd.enableLimits
    /\ lastCall.ok

\* C8: with the physical limits in order (min below max), the target an
\* accepted MoveAbsolute with enforceLimits hands to moveTo lies within the
\* operating limits whatever limits are configured, and clamping it again
\* gives the same target.
ClampedTargetWithinOperatingLimits ==
    (AfterClampedMove /\ g_minPosition < g_maxPosition) =>
        \A i \in DOMAIN lastCall.ops :
            lastCall.ops[i].op = "moveTo" =>
                /\ OperatingMin <= lastCall.ops[i].arg
                /\ lastCall.ops[i].arg <= OperatingMax
                /\ constrain(lastCall.ops[i].arg, OperatingMin, OperatingMax)
                      = lastCall.ops[i].arg

\* ------------------------------------------------------------------------
\* The controller with all producers of the motion command queue
\* ------------------------------------------------------------------------
\* The observed command: its serial number is the number of the producer call.
Tagged(cmd) == [cmd EXCEPT !.tag = sends + 1]

\* What a producer call leaves unchanged besides the queue and the observers.
ProducerFrame ==
    UNCHANGED <<pc, limitVars, homingVars, faultVars, motionVars, axis, handled,
                config, safetyState, mutexBusy, obs, seen, dmx>>

\* One xQueueSend by a producer that returns its result.
Enqueue(by, cmd) ==
    LET c == Tagged(cmd)
        ok == QueueHasRoom(queue)
    IN  /\ queue' = xQueueSend(queue, c)
        /\ sent' = IF ok THEN Append(sent, c) ELSE sent
        /\ sends' = sends + 1
        /\ lastCall' = [by |-> by, cmd |-> c, ok |-> ok,
                        ops |-> <<Op("xQueueSend", IF ok THEN 1 ELSE 0)>>]
        /\ UNCHANGED stepper
        /\ ProducerFrame

\* A producer call that returns false without calling xQueueSend.
Refuse(by, cmd) ==
    /\ sends' = sends + 1
    /\ lastCall' = [by |-> by, cmd |-> Tagged(cmd), ok |-> FALSE, ops |-> <<>>]
    /\ UNCHANGED <<queue, sent, stepper>>
    /\ ProducerFrame

SpeedCmd == Cmd("SET_SPEED", 0, TRUE, DEFAULT_MAX_SPEED, 0)
HomeCmd == Cmd("HOME", 0, TRUE, 0, 0)
StopCmd == Cmd("STOP", 0, TRUE, 0, 0)
FarMoveCmd == Cmd("MOVE_ABSOLUTE", 2 * TravelSteps, FALSE, 0, 0)
NearMoveCmd == Cmd("MOVE_ABSOLUTE", StepChunk, TRUE, 0, 0)
EmergencyStopCmd == Cmd("EMERGENCY_STOP", 0, TRUE, 0, 0)

\* Producer calls are placed where the task is about to receive, in the
\* periods in which the axis is at rest.  Home is the first command of a run
\* and the move beyond the switch the second; SetSpeed is sent at every
\* length of the queue, the other commands to an empty queue or a full one.
AtRest == ~HomingActive(g_homingState) /\ ~stepper.running

MaySend(cmd) ==
    /\ pc = "cmd"
    /\ sends < MaxSends
    /\ cmd = HomeCmd => sends = 0
    /\ cmd = FarMoveCmd => sends = 1 /\ queue = <<>>
    /\ cmd \notin {HomeCmd, FarMoveCmd} => AtRest
    /\ cmd \notin {HomeCmd, FarMoveCmd, SpeedCmd} =>
           queue = <<>> \/ ~QueueHasRoom(queue)

\* WebInterface::sendMotionCommand.
WebSend ==
    \E cmd \in {SpeedCmd, HomeCmd, FarMoveCmd} :
        MaySend(cmd) /\ Enqueue("web", cmd)

\* DMXReceiver: the Stop of a mode change and the move of a channel update.
DmxSend ==
    \E cmd \in {StopCmd, NearMoveCmd} :
        MaySend(cmd) /\ Enqueue("dmx", cmd)

\* SerialInterface::sendMotionCommand: moves are refused while the fault
\* latch is set, before xQueueSend.
SerialSend ==
    \E cmd \in {NearMoveCmd, SpeedCmd} :
        /\ MaySend(cmd)
        /\ IF g_limitFaultActive /\ cmd.type \in {"MOVE_ABSOLUTE", "MOVE_RELATIVE"}
           THEN Refuse("serial", cmd)
           ELSE Enqueue("serial", cmd)

\* StepperController::stop() and setMaxSpeed(): xQueueSend with a 10 ms
\* timeout; the call returns false when the queue stays full.
ApiSend ==
    \E cmd \in {StopCmd, SpeedCmd} :
        MaySend(cmd) /\ Enqueue("api", cmd)

\* An emergencyStop() that stops the driver without looking at the mutex.
EmergencyStopWithoutMutex ==
    /\ MaySend(EmergencyStopCmd)
    /\ IF QueueHasRoom(queue)
       THEN Enqueue("estop", EmergencyStopCmd)
       ELSE /\ sends' = sends + 1
            /\ stepper' = DrvForceStop(stepper)
            /\ lastCall' =
                 [by |-> "estop", cmd |-> Tagged(EmergencyStopCmd), ok |-> TRUE,
                  ops |-> <<Op("xQueueSend", 0), Op("forceStop", 0)>>]
            /\ UNCHANGED <<queue, sent>>
            /\ ProducerFrame

\* StepperController::emergencyStop(): the command is queued or, with the
\* queue full, the driver is stopped under the mutex.
EmergencyStop ==
    /\ MaySend(EmergencyStopCmd)
    /\ IF QueueHasRoom(queue)
       THEN Enqueue("estop", EmergencyStopCmd)
       ELSE /\ sends' = sends + 1
            /\ stepper' = IF mutexBusy THEN stepper ELSE DrvForceStop(stepper)
            /\ lastCall' =
                 [by |-> "estop", cmd |-> Tagged(EmergencyStopCmd), ok |-> ~mutexBusy,
                  ops |-> <<Op("xQueueSend", 0)>> \o
                          (IF mutexBusy THEN <<>> ELSE <<Op("forceStop", 0)>>)]
            /\ UNCHANGED <<queue, sent>>
            /\ ProducerFrame

Producers == {"web", "dmx", "serial", "api", "estop"}

InitQueue == InitWith(StepChunk, SwitchesAt(StepChunk), FALSE, FALSE)

\* The mutex is contended in the periods in which the axis is at rest.
MutexContended == AtRest /\ MutexToggle

NextQueue ==
    \/ TaskStep
    \/ TaskSleep
    \/ DriverStep
    \/ MutexContended
    \/ WebSend
    \/ DmxSend
    \/ SerialSend
    \/ ApiSend
    \/ EmergencyStop

SpecQueue == InitQueue /\ [][NextQueue]_vars

\* C9: the commands the queue has accepted and the task has not yet received
\* are the queue's contents in their enqueue order, and every command the
\* task has received was the oldest one waiting and was worked on by
\* processMotionCommand: each is executed once, none ahead of an earlier one.
EnqueuedExecutedInOrderOnce == handled /\ sent = queue

\* A step in which a producer calls xQueueSend.
EnqueueAttempt ==
    /\ sends' = sends + 1
    /\ lastCall'.by \in Producers
    /\ lastCall'.ops # <<>>
    /\ lastCall'.ops[1].op = "xQueueSend"

AlwaysAdmittedKinds == {"EMERGENCY_STOP", "ENABLE", "DISABLE"}

\* C11: every EmergencyStop, Enable and Disable the motion task takes from the
\* queue is accepted (processMotionCommand returns true), whatever the state,
\* and an EmergencyStop makes the driver's hard stop: forceStop is called and
\* the motor is at rest afterwards.
AlwaysAdmittedCommandsAccepted ==
    (AfterCommand /\ lastCall.cmd.type \in AlwaysAdmittedKinds) =>
        /\ lastCall.ok
        /\ lastCall.cmd.type = "EMERGENCY_STOP" =>
              (Op("forceStop", 0) \in OpsOf(lastCall) /\ ~stepper.running)

TerminalStates == {"IDLE", "COMPLETE", "ERROR"}
ActiveStates ==
    {"FINDING_LEFT", "BACKING_OFF_LEFT", "FINDING_RIGHT", "BACKING_OFF_RIGHT",
     "MOVING_TO_CENTER"}

\* The steps of one homing run, in order.
RunSteps ==
    {<<"FINDING_LEFT", "BACKING_OFF_LEFT">>, <<"BACKING_OFF_LEFT", "FINDING_RIGHT">>,
     <<"FINDING_RIGHT", "BACKING_OFF_RIGHT">>, <<"BACKING_OFF_RIGHT", "MOVING_TO_CENTER">>,
     <<"MOVING_TO_CENTER", "COMPLETE">>}

\* The step processes a Home command, from the queue or from the auto-home block.
HomeProcessed ==
    /\ lastCall'.by \in {"cmd", "autohome"}
    /\ lastCall'.cmd.type = "HOME"

\* The state a Home command starts in, by the debounced switches.
StartState ==
    IF g_limitState["left"] /\ g_limitState["right"] THEN "ERROR"
    ELSE IF g_limitState["left"] THEN "BACKING_OFF_LEFT"
    ELSE "FINDING_LEFT"

\* C12: the homing state changes only by a Home command processed in IDLE,
\* COMPLETE or ERROR, into the start state the debounced switches select
\* (ERROR with both active, BACKING_OFF_LEFT with the left one only active,
\* FINDING_LEFT otherwise), by one step of the run FINDING_LEFT ->
\* BACKING_OFF_LEFT -> FINDING_RIGHT -> BACKING_OFF_RIGHT -> MOVING_TO_CENTER
\* -> COMPLETE, or from an active state into ERROR; an active state is never
\* left by a Home command.
HomingStateSteps ==
    [][g_homingState' # g_homingState =>
         IF g_homingState \in TerminalStates
         THEN HomeProcessed /\ g_homingState' = StartState
         ELSE /\ ~HomeProcessed
              /\ \/ <<g_homingState, g_homingState'>> \in RunSteps
                 \/ g_homingState' = "ERROR"]_vars

\* A Home command processed with the carriage resting on the left switch has
\* started the run in BACKING_OFF_LEFT.
HomingStartedOnLeftSwitch ==
    /\ AfterCommand
    /\ lastCall.cmd.type = "HOME"
    /\ lastCall.ok
    /\ g_homingState = "BACKING_OFF_LEFT"
    /\ g_limitState["left"]
    /\ Op("move", BACKOFF_STEPS * 2) \in OpsOf(lastCall)

\* The task takes a Home command from the queue while a homing run is active.
HomeReceivedWhileHoming ==
    /\ pc = "cmd"
    /\ pc' = "homing"
    /\ queue # <<>>
    /\ Head(queue).type = "HOME"
    /\ g_homingState \in ActiveStates

\* C13: a Home command processed while the homing state is active changes
\* nothing: homing state, the run's and the phase's start times, systemHomed,
\* positionLimitsValid, the fault latch and the driver's target, position and
\* running flag stay as they are, no driver call is made and the call
\* returns false.
HomeWhileHomingIsNoOp ==
    [][HomeReceivedWhileHoming =>
         /\ UNCHANGED <<g_homingState, homingMs, phaseMs, g_systemHomed,
                        g_positionLimitsValid, g_limitFaultActive, stepper>>
         /\ lastCall'.cmd.type = "HOME"
         /\ lastCall'.ops = <<>>
         /\ ~lastCall'.ok]_vars

\* A Home command has been processed in the middle of a run, the motor running.
HomeIgnoredWhileHoming ==
    /\ AfterCommand
    /\ lastCall.cmd.type = "HOME"
    /\ ~lastCall.ok
    /\ g_homingState \in ActiveStates
    /\ stepper.running

\* ------------------------------------------------------------------------
\* The homing run with switches that stick or chatter
\* ------------------------------------------------------------------------
\* A switch that does not follow the carriage: the level the carriage has just
\* changed bounces back to the level the task read last, as with a switch
\* that does not close when reached or does not open when left.
SwitchSticks ==
    /\ pc = "moved"
    /\ \E s \in Sides :
          /\ pin[s] # pinReading[s]
          /\ pin' = [pin EXCEPT ![s] = pinReading[s]]
    /\ UNCHANGED <<pc, axis, stepper, pinReading, g_limitTriggered, g_limitState,
                   g_lastPinReading, debounceOn, debounceMs, homingVars, faultVars,
                   motionVars, queueVars, config, safetyState, mutexBusy, lastCall,
                   obs, seen, dmx>>

\* The commands of the homing specification.
HomingCommands ==
    {Cmd("HOME", 0, TRUE, 0, 0),
     Cmd("STOP", 0, TRUE, 0, 0),
     Cmd("EMERGENCY_STOP", 0, TRUE, 0, 0)}

SendHomingCommand ==
    /\ pc = "cmd"
    /\ queue = <<>>
    /\ sends < MaxHomingCommands
    /\ \E cmd \in HomingCommands : Send(cmd)

\* The sleep in which the run's overall timeout passes.
TimeoutSleep ==
    /\ HomingActive(g_homingState)
    /\ HOMING_TIMEOUT_MS + 1 - homingMs \in SleepTimes
    /\ TaskDelay(HOMING_TIMEOUT_MS + 1 - homingMs)

\* The inputs at start: the carriage between the switches with both open, or
\* both inputs at the active level, as with the switch cable pulled.
StartSwitches == {SwitchesAt(StepChunk), [s \in Sides |-> TRUE]}

InitHoming == \E pins \in StartSwitches : InitWith(StepChunk, pins, FALSE, FALSE)

NextHoming ==
    \/ TaskStep
    \/ TaskSleep
    \/ DriverStep
    \/ SwitchSticks
    \/ SendHomingCommand

\* The task keeps running its loop (vTaskDelayUntil wakes it every 2 ms), the
\* step generator makes steps while the motor is running, and time advances:
\* a run that lasts long enough sees the sleep in which its timeout passes.
SpecHoming ==
    /\ InitHoming
    /\ [][NextHoming]_vars
    /\ WF_vars(TaskStep)
    /\ WF_vars(TaskSleep)
    /\ SF_vars(DriverStep)
    /\ SF_vars(TimeoutSleep)

\* The task has run updateHomingSequence in this loop pass.
AfterHomingUpdate == pc \in {"status", "autohome", "delay", "moved"}

\* C14: every homing run ends: an active homing state is followed by COMPLETE
\* or ERROR, and once more than HOMING_TIMEOUT_MS has passed since the run
\* started no active state is left after the task's next update of the
\* sequence, also with a switch that never closes or never opens.
HomingRunTerminates ==
    /\ [](AfterHomingUpdate /\ homingMs > HOMING_TIMEOUT_MS =>
              g_homingState \notin ActiveStates)
    /\ (g_homingState \in ActiveStates) ~> (g_homingState \in {"COMPLETE", "ERROR"})

\* A run has been ended by the timeout with the carriage driven off the left
\* switch and the switch still closed.
TimedOutOnStuckSwitch ==
    /\ pc = "status"
    /\ homingMs > HOMING_TIMEOUT_MS
    /\ g_homingState = "ERROR"
    /\ Op("forceStop", 0) \in OpsOf(lastCall)
    /\ pin["left"]
    /\ g_limitState["left"]
    /\ axis >= 2 * StepChunk

ReferencePosition == HomePosition(g_minPosition, g_maxPosition, config.homePositionPercent)

\* C16: the step from MOVING_TO_CENTER into COMPLETE is taken only with the
\* axis at the reference position its move was commanded to; a move halted
\* on the way by Stop, EmergencyStop or a limit fault's hard stop does not
\* end in COMPLETE with systemHomed set.  The runs looked at are those that
\* found a range (minimum below maximum).
CompletesOnlyAtReference ==
    [][(/\ g_homingState = "MOVING_TO_CENTER"
        /\ g_homingState' = "COMPLETE"
        /\ g_minPosition < g_maxPosition) =>
         stepper'.pos = ReferencePosition]_vars

\* The status block of the task's pass has run.
AfterStatusUpdate == pc \in {"autohome", "delay", "moved"}

StepIntoError == g_homingState # "ERROR" /\ g_homingState' = "ERROR"

\* The run's or the phase's time has passed the timeout.
TimeoutCause ==
    /\ g_homingState \in ActiveStates
    /\ homingMs > HOMING_TIMEOUT_MS \/ phaseMs > HOMING_TIMEOUT_MS

\* A Home command is processed with both debounced switches active.
BothSwitchesCause ==
    /\ HomeProcessed
    /\ g_limitState["left"]
    /\ g_limitState["right"]

\* A Finding state sees the motor at rest and its switch not active.
MotorAtRestCause ==
    \/ g_homingState = "FINDING_LEFT" /\ ~stepper.running /\ ~g_limitState["left"]
    \/ g_homingState = "FINDING_RIGHT" /\ ~stepper.running /\ ~g_limitState["right"]

\* C18 as stated: ERROR is entered only by the timeout or by a Home command
\* processed with both switches active.
ErrorOnlyByTimeoutOrBothSwitches ==
    [][StepIntoError => (TimeoutCause \/ BothSwitchesCause)]_vars

\* C18: ERROR is entered only by the timeout, by a Home command processed
\* with both switches active, or by a Finding state that sees the motor at
\* rest while its switch is not active.
ErrorCauses ==
    [][StepIntoError => (TimeoutCause \/ BothSwitchesCause \/ MotorAtRestCause)]_vars

\* A run has just failed in FINDING_LEFT within its time: the motor was
\* halted by a Stop or EmergencyStop command short of the switch.
FailedByHaltedSearch ==
    /\ pc = "status"
    /\ lastCall.by = "homing"
    /\ lastCall.ops = <<>>
    /\ g_homingState = "ERROR"
    /\ g_motionState = "HOMING"
    /\ homingMs <= HOMING_TIMEOUT_MS
    /\ ~g_limitState["left"]
    /\ axis > 0

\* The driver calls that command a move.
MoveOps == {"moveTo", "move"}

\* The step processes a Home command, accepted, with both debounced switches active.
HomeAcceptedOnBothSwitches ==
    /\ HomeProcessed
    /\ lastCall'.ok
    /\ g_limitState["left"]
    /\ g_limitState["right"]

\* C19: a Home command accepted while both debounced limit switches are
\* active puts the homing state into ERROR in that step, commands no move
\* (the driver's target, position and running flag stay as they are) and
\* leaves systemHomed false.
HomeOnBothSwitchesFails ==
    [][HomeAcceptedOnBothSwitches =>
         /\ g_homingState' = "ERROR"
         /\ ~g_systemHomed'
         /\ stepper' = stepper
         /\ \A i \in DOMAIN lastCall'.ops : lastCall'.ops[i].op \notin MoveOps]_vars

\* A Home command has been accepted with both switches active.
HomeFailedOnBothSwitches ==
    /\ AfterCommand
    /\ lastCall.cmd.type = "HOME"
    /\ lastCall.ok
    /\ g_limitState["left"]
    /\ g_limitState["right"]
    /\ g_homingState = "ERROR"
    /\ ~stepper.running

\* ------------------------------------------------------------------------
\* The range a homing run measures
\* ------------------------------------------------------------------------
\* The task has acted on what it sees: another update of the homing sequence
\* would change nothing.
HomingSettled ==
    HomingActive(g_homingState) => UpdateHomingSequence(ControlState) = ControlState

\* The task's period of 2 ms is short against the time the motor takes for
\* StepChunk steps: the motor makes its steps once the task has acted.
PacedDriverStep ==
    /\ HomingSettled
    /\ DriverStep

\* Where the carriage starts: on the left switch, half a back-off move from
\* it, a whole one from it.
AxisStarts == {0, StepChunk \div 2, StepChunk}

AxisCommands == {Cmd("HOME", 0, TRUE, 0, 0), Cmd("STOP", 0, TRUE, 0, 0)}

SendAxisCommand ==
    /\ pc = "cmd"
    /\ queue = <<>>
    /\ sends < MaxCommands
    /\ \E cmd \in AxisCommands : Send(cmd)

InitAxis == \E start \in AxisStarts : InitWith(start, SwitchesAt(start), FALSE, FALSE)

NextAxis ==
    \/ TaskStep
    \/ TaskSleep
    \/ PacedDriverStep
    \/ SendAxisCommand

SpecAxis == InitAxis /\ [][NextAxis]_vars

\* The step of BACKING_OFF_RIGHT that records the physical maximum.
RangeMeasured ==
    /\ g_homingState = "BACKING_OFF_RIGHT"
    /\ g_homingState' = "MOVING_TO_CENTER"

\* C20: every homing run on the same axis measures the same range: the
\* physical minimum is the margin, and a run after a completed one records
\* the physical maximum the earlier run has recorded, wherever the carriage
\* started and however the back-off moves fall relative to the debounced
\* release of the switch.
MeasuredRangeRepeats ==
    [][RangeMeasured =>
         /\ g_minPosition' = POSITION_MARGIN
         /\ seen.everHomed => g_maxPosition' = g_maxPosition]_vars

\* ------------------------------------------------------------------------
\* The configuration record and the homing reference
\* ------------------------------------------------------------------------
\* C21: whenever positionLimitsValid is true the configured operating limits
\* lie within the physical limits: physical minimum <= configured minimum and
\* configured maximum <= physical maximum, after the homing run's correction
\* and after every configuration update.
ConfiguredLimitsWithinPhysical ==
    g_positionLimitsValid =>
        /\ g_minPosition <= config.minPosition
        /\ config.maxPosition <= g_maxPosition

\* The home position percentages sent by the front end: the ends and the middle.
HomePercents == {0, HOME_PERCENT_DEFAULT, 100}

\* WebInterface::updateConfiguration with the keys minPosition, maxPosition
\* and homePositionPercent: the limits are stored as received, the
\* percentage if it lies in 0..100.
WebUpdateReference(lo, hi, percent) ==
    /\ config' = [config EXCEPT !.minPosition = lo, !.maxPosition = hi,
                                !.homePositionPercent =
                                    IF percent >= 0 /\ percent <= 100
                                    THEN percent ELSE config.homePositionPercent]
    /\ UNCHANGED <<pc, limitVars, homingVars, faultVars, motionVars, driverVars,
                   queueVars, safetyState, mutexBusy, lastCall, obs, seen, dmx>>

\* The configuration is set up before the first command is sent.
WebSetup ==
    /\ pc = "cmd"
    /\ sends = 0
    /\ \E lo \in ConfigPositions, hi \in ConfigPositions, percent \in HomePercents :
          WebUpdateReference(lo, hi, percent)

NextReference ==
    \/ TaskStep
    \/ TaskSleep
    \/ DriverStep
    \/ SendHomingCommand
    \/ WebSetup

SpecReference == InitConfig /\ [][NextReference]_vars

\* C22: the reference position commanded on the step from BACKING_OFF_RIGHT
\* to MOVING_TO_CENTER lies within the operating limits, configured minimum
\* <= reference <= configured maximum, whenever these form a valid pair
\* (minimum below maximum), for every home position percentage in 0..100.
ReferenceWithinOperatingLimits ==
    [][(RangeMeasured /\ config'.minPosition < config'.maxPosition) =>
         /\ config'.minPosition <= stepper'.target
         /\ stepper'.target <= config'.maxPosition]_vars

\* ------------------------------------------------------------------------
\* The stepper mutex and the task's pass
\* ------------------------------------------------------------------------
\* C23: a command the task has taken from the queue while the stepper mutex
\* could not be obtained is not lost: it is still the next command to be
\* processed, to be executed or rejected on a later pass.
DequeuedCommandNotLost ==
    (AfterCommand /\ mutexBusy) =>
        /\ queue # <<>>
        /\ Head(queue) = lastCall.cmd

\* The step is a call of emergencyStop().
EmergencyStopCall ==
    /\ lastCall'.by = "estop"
    /\ sends' = sends + 1

\* C24: emergencyStop() calls the driver's hard stop only when its command
\* could not be queued and only with the stepper mutex obtained, leaves the
\* driver alone otherwise, and returns true exactly when the command was
\* queued or the hard stop was made.
EmergencyStopUnderMutex ==
    [][EmergencyStopCall =>
         LET enqueued == queue' # queue
             stopped == Op("forceStop", 0) \in OpsOf(lastCall')
         IN  /\ stopped => (~enqueued /\ ~mutexBusy)
             /\ ~stopped => stepper' = stepper
             /\ lastCall'.ok <=> (enqueued \/ stopped)]_vars

\* emergencyStop() has found the queue full and stopped the driver itself.
EmergencyStopFastPath ==
    /\ lastCall.by = "estop"
    /\ lastCall.ok
    /\ Op("forceStop", 0) \in OpsOf(lastCall)
    /\ Len(queue) = MOTION_QUEUE_LENGTH
    /\ ~mutexBusy

\* ------------------------------------------------------------------------
\* The stepper mutex held by another task at any time
\* ------------------------------------------------------------------------
NextMutex ==
    \/ TaskStep
    \/ TaskSleep
    \/ DriverStep
    \/ SendCommand
    \/ MutexToggle

SpecMutex == InitQueue /\ [][NextMutex]_vars

\* The calls of the axis driver that command it.
DriverCommands ==
    {"moveTo", "move", "forceStop", "stopMove", "setSpeedInHz",
     "setAcceleration", "setCurrentPosition"}

\* C25: while another task holds the stepper mutex, no block of the motion
\* task calls a commanding function of the driver or writes the fault latch
\* or the motion state.
DriverAndFlagsOnlyUnderMutex ==
    [][(TaskStep /\ mutexBusy) =>
         /\ \A i \in DOMAIN lastCall'.ops : lastCall'.ops[i].op \notin DriverCommands
         /\ g_limitFaultActive' = g_limitFaultActive
         /\ g_motionState' = g_motionState]_vars

\* ------------------------------------------------------------------------
\* The order of the blocks in one pass of the task
\* ------------------------------------------------------------------------
\* The motion state that fits the homing state and the driver as they are.
MotionStateOf(h, st) ==
    IF h \in ActiveStates THEN "HOMING"
    ELSE IF st.running THEN RampState(st)
    ELSE "IDLE"

OneCommandPerPass == seen.calls <= 1

\* The step hands a guarded command to processMotionCommand, which rejects it.
RejectionStep ==
    /\ pc = "cmd"
    /\ pc' = "homing"
    /\ queue # <<>>
    /\ Head(queue).type \in GuardedKinds
    /\ ~mutexBusy
    /\ ~lastCall'.ok
    /\ lastCall'.ops = <<>>

\* C28: the rejection of a guarded command leaves the driver, the live
\* profile, the homing state, the fault latch and the published status,
\* the safety state included, as they were.
RejectionChangesNothing ==
    [][RejectionStep =>
         /\ stepper' = stepper
         /\ g_currentProfile' = g_currentProfile
         /\ g_homingState' = g_homingState
         /\ g_limitFaultActive' = g_limitFaultActive
         /\ g_currentPosition' = g_currentPosition
         /\ g_motionState' = g_motionState
         /\ g_stepperEnabled' = g_stepperEnabled
         /\ g_limitState' = g_limitState
         /\ safetyState' = safetyState]_vars

\* C29: no block of the motion task changes a field of the configuration
\* record or has it saved.
TaskLeavesConfigAlone ==
    [][TaskStep =>
         /\ config' = config
         /\ \A i \in DOMAIN lastCall'.ops : lastCall'.ops[i].op # "saveToEEPROM"]_vars

\* ------------------------------------------------------------------------
\* Relative moves
\* ------------------------------------------------------------------------
\* A homing run, a move to the right end of the operating range, a short
\* relative move and the longest relative move a command can carry.
RelativeCommands ==
    {Cmd("HOME", 0, TRUE, 0, 0),
     Cmd("MOVE_ABSOLUTE", StepChunk, TRUE, 0, 0),
     Cmd("MOVE_RELATIVE", -POSITION_MARGIN, TRUE, 0, 0),
     Cmd("MOVE_RELATIVE", INT32_MAX, TRUE, 0, 0)}

SendRelativeCommand ==
    /\ pc = "cmd"
    /\ queue = <<>>
    /\ sends < MaxCommands
    /\ \E cmd \in RelativeCommands : Send(cmd)

NextRelative ==
    \/ TaskStep
    \/ TaskSleep
    \/ PacedDriverStep
    \/ SendRelativeCommand

SpecRelative == InitAxis /\ [][NextRelative]_vars

\* pos + delta brought into lo..hi, the sum taken over the integers.
ClampedSum(pos, delta, lo, hi) ==
    IF delta > 0 /\ pos > hi - delta THEN hi
    ELSE IF delta < 0 /\ pos < lo - delta THEN lo
    ELSE constrain(pos + delta, lo, hi)

\* The step executes an accepted MoveRelative that enforces the limits.
RelativeMoveAccepted ==
    /\ pc = "cmd"
    /\ pc' = "homing"
    /\ queue # <<>>
    /\ Head(queue).type = "MOVE_RELATIVE"
    /\ Head(queue).enableLimits
    /\ lastCall'.ok

\* C30: the target an accepted MoveRelative(delta) commands is the driver's
\* position at the time the command executes plus delta, the sum taken
\* without wraparound, brought into the operating limits.
RelativeTargetFromPosition ==
    [][(RelativeMoveAccepted /\ config.minPosition <= config.maxPosition) =>
         stepper'.target =
             ClampedSum(stepper.pos, Head(queue).targetPosition,
                        constrain(config.minPosition, g_minPosition, g_maxPosition),
                        constrain(config.maxPosition, g_minPosition, g_maxPosition))]_vars

\* ------------------------------------------------------------------------
\* What the status shows of a failed run
\* ------------------------------------------------------------------------
\* C31: while the homing state is ERROR the published safety state is
\* POSITION_ERROR, from the end of the pass in which the run failed, whatever
\* ended the run.
FailedRunPublished ==
    (g_homingState = "ERROR" /\ AfterStatusUpdate) => safetyState = "POSITION_ERROR"

\* ------------------------------------------------------------------------
\* Auto-homing after a limit fault
\* ------------------------------------------------------------------------
\* The commands of an operator around a limit fault: Home, a move beyond the
\* right switch with the limits not enforced, and Stop.
AutoHomeCommands == {HomeCmd, FarMoveCmd, StopCmd}

SendAutoHomeCommand ==
    /\ pc = "cmd"
    /\ queue = <<>>
    /\ sends < MaxAutoHomeCommands
    /\ \E cmd \in AutoHomeCommands : Send(cmd)

\* The sleep in which the auto-home delay passes.
AutoHomeSleep ==
    /\ g_autoHomeRequested
    /\ autoHomeMs < AUTO_HOME_DELAY_MS
    /\ AUTO_HOME_DELAY_MS - autoHomeMs \in SleepTimes
    /\ TaskDelay(AUTO_HOME_DELAY_MS - autoHomeMs)

\* A sleep short against the homing timeout: the travel takes a fraction of
\* HOMING_TIMEOUT_MS at the homing speed, and no run times out.
BriefSleep ==
    /\ TaskSleep
    /\ homingMs' = homingMs
    /\ phaseMs' = phaseMs

\* autoHomeOnEstop is enabled; the carriage starts between the switches.
InitAutoHome == InitWith(StepChunk, SwitchesAt(StepChunk), TRUE, FALSE)

NextAutoHome ==
    \/ TaskStep
    \/ BriefSleep
    \/ PacedDriverStep
    \/ SendAutoHomeCommand

\* The task runs its passes, the motor makes its steps, and time passes.
SpecAutoHome ==
    /\ InitAutoHome
    /\ [][NextAutoHome]_vars
    /\ WF_vars(TaskStep)
    /\ WF_vars(BriefSleep)
    /\ SF_vars(PacedDriverStep)
    /\ SF_vars(AutoHomeSleep)

\* The auto-home block hands its Home command to processMotionCommand.
AutoHomeStart ==
    /\ pc = "autohome"
    /\ lastCall'.by = "autohome"
    /\ lastCall'.cmd.type = "HOME"

\* The auto-home block has started a run.
AutoHomeStarted ==
    /\ lastCall.by = "autohome"
    /\ lastCall.cmd.type = "HOME"

\* C32: with autoHomeOnEstop enabled a latched limit fault is followed by
\* the start of an auto-initiated homing run, and such a run starts only
\* when AUTO_HOME_DELAY_MS have passed since the fault, with the motor at
\* rest and no homing run active.
AutoHomeFollowsFault ==
    /\ [][AutoHomeStart =>
            /\ autoHomeMs >= AUTO_HOME_DELAY_MS
            /\ ~stepper.running
            /\ g_homingState \notin ActiveStates]_vars
    /\ (g_autoHomeRequested ~> AutoHomeStarted)

\* ------------------------------------------------------------------------
\* DMXReceiver: the task
\* ------------------------------------------------------------------------
\* Packets received in one run of the DMX specification.
MaxPackets == 4

\* The packets: <<mode value, value of the four other channels>>.  Mode
\* values of the three ranges, 255 and a value of the HOME range below it;
\* a packet of zeros, and one with nothing but the mode channel at 255.
Packets == {<<0, 0>>, <<0, 128>>, <<128, 128>>, <<200, 128>>, <<255, 128>>, <<255, 0>>}

\* The position a value of the position channel stands for (8-bit mode):
\* minPos + (int32_t)((range * positionPercent) / 100.0f), with
\* positionPercent = value / 255 * 100.
DmxTarget(minPos, maxPos, value) == minPos + TruncDiv((maxPos - minPos) * value, 255)

\* processDMXChannels() with the receiver connected: the receiver afterwards
\* and the commands handed to xQueueSend, in order.  positionTimeout is
\* whether 30 s have passed since the last position update.
processDMXChannels(d, q, positionTimeout) ==
    LET currentlyHoming == HomingActive(g_homingState)
        started == currentlyHoming /\ ~d.homingInProgress
        ended == ~currentlyHoming /\ d.homingInProgress
        d1 == IF started THEN [d EXCEPT !.homingInProgress = TRUE]
              ELSE IF ended
              THEN [d EXCEPT !.homingInProgress = FALSE,
                             !.homingTriggeredByDMX = FALSE,
                             !.currentMode = "STOP"]
              ELSE d
        newMode == detectModeWithHysteresis(d1.cacheMode, d1.currentMode)
        homingRequired == ~g_systemHomed \/ g_limitFaultActive
        changed == newMode # d1.currentMode
        first == IF ~changed THEN <<>>
                 ELSE IF newMode = "STOP" THEN <<StopCmd>>
                 ELSE IF newMode = "HOME"
                 THEN (IF currentlyHoming THEN <<>> ELSE <<HomeCmd>>)
                 ELSE (IF homingRequired THEN <<StopCmd>> ELSE <<>>)
        homeSent == changed /\ newMode = "HOME" /\ ~currentlyHoming /\ QueueHasRoom(q)
        d2 == [d1 EXCEPT !.currentMode = newMode,
                         !.homingTriggeredByDMX = d1.homingTriggeredByDMX \/ homeSent,
                         !.held = IF homeSent THEN TRUE ELSE d1.held]
        targetPosition == DmxTarget(g_minPosition, g_maxPosition, d2.cacheRest)
        positionChanged ==
            \/ d2.lastTargetPosition = -1
            \/ Abs(targetPosition - d2.lastTargetPosition) > 2
            \/ positionTimeout
            \/ ~(Abs(g_currentPosition - targetPosition) < 3)
        speedChanged == Abs(d2.cacheRest - d2.lastSpeedValue) > 2
        needsUpdate == positionChanged \/ (g_motionState # "IDLE" /\ speedChanged)
        moveCmd == Cmd("MOVE_ABSOLUTE", targetPosition, TRUE, 0, 0)
        q1 == IF first = <<>> THEN q ELSE xQueueSend(q, first[1])
        control == /\ d2.currentMode = "CONTROL"
                   /\ ~homingRequired
                   /\ g_positionLimitsValid
                   /\ needsUpdate
        d3 == IF control /\ QueueHasRoom(q1)
              THEN [d2 EXCEPT !.lastTargetPosition = targetPosition,
                              !.lastSpeedValue = d2.cacheRest]
              ELSE d2
    IN  IF d1.homingInProgress
        THEN [d |-> d1, out |-> <<>>]
        ELSE [d |-> d3, out |-> first \o (IF control THEN <<moveCmd>> ELSE <<>>)]

RECURSIVE SendAll(_, _)
\* xQueueSend of each command in turn.
SendAll(q, cmds) ==
    IF cmds = <<>> THEN q ELSE SendAll(xQueueSend(q, Head(cmds)), Tail(cmds))

\* One pass of dmxTask's loop with the signal present: a new packet, if
\* there is one, goes through updateChannelCache, then processDMXChannels
\* runs on the cache.
DmxTaskWith(packet, isNew, positionTimeout) ==
    LET d1 == IF isNew THEN DmxPacketReceived(dmx, packet[1], packet[2]) ELSE dmx
        r == processDMXChannels(d1, queue, positionTimeout)
    IN  /\ d1.connected
        /\ dmx' = r.d
        /\ queue' = SendAll(queue, r.out)
        /\ sends' = sends + Len(r.out)
        /\ isNew \/ dmx' # dmx \/ queue' # queue

\* The passes are placed where the task is about to receive, as the sends
\* of the other producers are.
DmxTask ==
    /\ pc = "cmd"
    /\ queue = <<>>
    /\ sends < MaxCommands
    /\ \E packet \in Packets, isNew \in BOOLEAN, positionTimeout \in BOOLEAN :
           /\ isNew => dmx.packets < MaxPackets
           /\ ~isNew => packet = <<0, 0>>
           /\ DmxTaskWith(packet, isNew, positionTimeout)
    /\ UNCHANGED <<pc, limitVars, homingVars, faultVars, motionVars, driverVars,
                   sent, handled, config, safetyState, mutexBusy, lastCall, obs, seen>>

\* The carriage starts between the switches; no packet has arrived.
InitDmx == InitWith(StepChunk, SwitchesAt(StepChunk), FALSE, FALSE)

NextDmx ==
    \/ TaskStep
    \/ BriefSleep
    \/ PacedDriverStep
    \/ DmxTask

SpecDmx == InitDmx /\ [][NextDmx]_vars

\* This pass of the DMX task hands a Home command to the queue.
DmxHomeSent ==
    /\ DmxTask
    /\ queue' # <<>>
    /\ Head(queue').type = "HOME"

\* C33: the DMX producer enqueues a Home command only when the mode value
\* has been in the HOME range in at least HOME_TRIGGER_COUNT packets in a
\* row.
HomeOnlyAfterTriggerCount ==
    [][DmxHomeSent => dmx'.run >= HOME_TRIGGER_COUNT]_vars

\* C34: once a homing run the DMX producer triggered has ended, the producer
\* enqueues no further Home command while the mode value has stayed in the
\* HOME range in every packet since.
NoSecondDmxHome ==
    [][~(/\ DmxHomeSent
         /\ dmx.held
         /\ dmx'.run > 0
         /\ g_homingState \in {"COMPLETE", "ERROR"})]_vars

\* ------------------------------------------------------------------------
\* Moves during homing
\* ------------------------------------------------------------------------
\* The task receives a move command while a homing run is active.
MoveReceivedWhileHoming ==
    /\ pc = "cmd"
    /\ pc' = "homing"
    /\ queue # <<>>
    /\ IsMotionCommand(Head(queue).type)
    /\ HomingActive(g_homingState)

\* A homing run starts.
HomingStarts == ~HomingActive(g_homingState) /\ HomingActive(g_homingState')

\* C35: the start of a homing run clears g_systemHomed and
\* g_positionLimitsValid, g_systemHomed is false in every active homing
\* state, and a MoveAbsolute or MoveRelative received while a run is active
\* is refused without a call to the driver.
NoMoveWhileHoming ==
    /\ [](HomingActive(g_homingState) => ~g_systemHomed)
    /\ [][HomingStarts => ~g_systemHomed' /\ ~g_positionLimitsValid']_vars
    /\ [][MoveReceivedWhileHoming =>
              /\ ~lastCall'.ok
              /\ lastCall'.ops = <<>>
              /\ stepper' = stepper]_vars

\* A run started on a homed axis is active, and the move just received was
\* refused with the fault latch clear.
MoveRefusedInSecondRun ==
    /\ pc = "homing"
    /\ HomingActive(g_homingState)
    /\ seen.everHomed
    /\ ~g_limitFaultActive
    /\ ~mutexBusy
    /\ lastCall.by = "cmd"
    /\ IsMotionCommand(lastCall.cmd.type)
    /\ ~lastCall.ok

\* ------------------------------------------------------------------------
\* Emergency stop during homing
\* ------------------------------------------------------------------------
\* The task has executed an EmergencyStop command in this pass with a homing
\* run active, and updateHomingSequence is next.
EmergencyStoppedWhileHoming ==
    /\ pc = "homing"
    /\ lastCall.by = "cmd"
    /\ lastCall.cmd.type = "EMERGENCY_STOP"
    /\ lastCall.ok
    /\ HomingActive(g_homingState)

\* C36: after an EmergencyStop executed in an active homing state the
\* homing sequencer commands no move and no moveTo: the pass of
\* updateHomingSequence that follows the stop leaves the motor at rest.
EmergencyStopEndsRun ==
    [][EmergencyStoppedWhileHoming =>
           /\ \A i \in DOMAIN lastCall'.ops : lastCall'.ops[i].op \notin {"move", "moveTo"}
           /\ ~stepper'.running]_vars

\* C37: an auto-initiated homing run starts only with the fault latch set:
\* once a homing run has reached COMPLETE and cleared the latch, the
\* auto-home block starts no run unless a new fault has latched.
AutoHomeOnlyWithFault ==
    [][AutoHomeStart => g_limitFaultActive]_vars

\* ------------------------------------------------------------------------
\* The homed flag and the position limits
\* ------------------------------------------------------------------------
\* The task refuses a move command it has received with the mutex free.
MoveRefused ==
    /\ pc = "cmd"
    /\ pc' = "homing"
    /\ queue # <<>>
    /\ IsMotionCommand(Head(queue).type)
    /\ ~mutexBusy
    /\ ~lastCall'.ok

\* C38: g_systemHomed implies g_positionLimitsValid in every reachable
\* state, so a move is never refused for the position limits alone: every
\* refused move finds the fault latch set or the axis not homed.
LimitsValidWhenHomed ==
    /\ [](g_systemHomed => g_positionLimitsValid)
    /\ [][MoveRefused => g_limitFaultActive \/ ~g_systemHomed]_vars

\* A move has been refused on a homed axis: the fault latch was the reason.
MoveRefusedOnHomedAxis ==
    /\ pc = "homing"
    /\ g_systemHomed
    /\ g_positionLimitsValid
    /\ ~mutexBusy
    /\ lastCall.by = "cmd"
    /\ IsMotionCommand(lastCall.cmd.type)
    /\ ~lastCall.ok

\* ------------------------------------------------------------------------
\* The measured range
\* ------------------------------------------------------------------------
\* An axis whose switches are closer together than a back-off move and two
\* margins need: the distance of the switches, in units of StepChunk steps.
ShortTravelChunks == 2
ShortTravelSteps == ShortTravelChunks * StepChunk

\* Which switch the carriage presses at a place of the short axis.
ShortSwitchesAt(a) == [s \in Sides |-> IF s = "left" THEN a <= 0 ELSE a >= ShortTravelSteps]

\* The end stops of the short axis.
ShortAxisAfter(a, delta) ==
    constrain(a + delta, -OverrunSteps, ShortTravelSteps + OverrunSteps)

\* The driver's step generator on the short axis.
ShortDriverStep ==
    /\ pc = "delay"
    /\ stepper.running
    /\ HomingSettled
    /\ LET dist == stepper.target - stepper.pos
           want == Sign(dist) * Min(Abs(dist), StepChunk)
           place == ShortAxisAfter(axis, want)
           delta == place - axis
       IN  /\ want = 0 \/ delta # 0
           /\ stepper' = [stepper EXCEPT !.pos = stepper.pos + delta,
                                         !.running = (stepper.pos + delta # stepper.target)]
           /\ axis' = place
           /\ pin' = ShortSwitchesAt(place)
           /\ g_limitTriggered' = LimitISR(ShortSwitchesAt(place))
    /\ pc' = "moved"
    /\ UNCHANGED <<pinReading, g_limitState, g_lastPinReading, debounceOn, debounceMs,
                   homingVars, faultVars, motionVars, queueVars, config, safetyState,
                   mutexBusy, lastCall, obs, seen, dmx>>

\* The sleep on the short axis, short against the homing timeout.
ShortSleep ==
    /\ \E d \in (IF pc = "moved" THEN {StepTime} \cup {t \in Deadlines : t > StepTime}
                 ELSE IF ENABLED ShortDriverStep THEN {0}
                 ELSE {0} \cup Deadlines) : TaskDelay(d)
    /\ homingMs' = homingMs
    /\ phaseMs' = phaseMs

\* The carriage starts in the middle of the short axis.
InitShort == InitWith(StepChunk, ShortSwitchesAt(StepChunk), FALSE, FALSE)

\* The operator homes the axis and sends it to a place between the switches,
\* with the limits enforced.
ShortCommands == {HomeCmd, Cmd("MOVE_ABSOLUTE", StepChunk \div 2, TRUE, 0, 0)}

SendShortCommand ==
    /\ pc = "cmd"
    /\ queue = <<>>
    /\ sends < MaxCommands
    /\ \E cmd \in ShortCommands : Send(cmd)

NextShort ==
    \/ TaskStep
    \/ ShortSleep
    \/ ShortDriverStep
    \/ SendShortCommand

SpecShort == InitShort /\ [][NextShort]_vars

\* C39: whenever g_positionLimitsValid is true the measured range is not
\* empty: g_minPosition < g_maxPosition.
ValidLimitsAreOrdered ==
    g_positionLimitsValid => g_minPosition < g_maxPosition

\* ------------------------------------------------------------------------
\* Accepted moves and the physical range
\* ------------------------------------------------------------------------
\* The task accepts a MoveAbsolute or MoveRelative with enableLimits set.
MoveWithLimitsAccepted ==
    /\ pc = "cmd"
    /\ pc' = "homing"
    /\ queue # <<>>
    /\ IsMotionCommand(Head(queue).type)
    /\ Head(queue).enableLimits
    /\ lastCall'.ok

\* C40: the target handed to the driver by an accepted MoveAbsolute or
\* MoveRelative with enableLimits = true lies within
\* [g_minPosition, g_maxPosition], whatever the configured operating limits.
TargetWithinPhysicalLimits ==
    [][MoveWithLimitsAccepted =>
           /\ g_minPosition <= stepper'.target
           /\ stepper'.target <= g_maxPosition]_vars

====
